---- MODULE Spec2Model ----
(***************************************************************************)
(* A model of the dtb-ibge / geodata-br exporter: the Database data model  *)
(* (src/export.py), the export run DTB.export_db, the exporters            *)
(* (src/exporters.py) and the dataset serializers                          *)
(* (src/lib/geodatabr/dataset/serializers.py).                             *)
(*                                                                         *)
(* Python values are tagged: PyInt(n), PyStr(s) and PyNone.  A string is a *)
(* sequence of characters, each character a one-character TLA+ string.     *)
(***************************************************************************)
EXTENDS Integers, Sequences, FiniteSets, TLC

VARIABLES
    pc,         \* position of the run
    cols,       \* Database._cols      (class attribute, export.py:114)
    rows,       \* Database._rows      (class attribute, export.py:115)
    data,       \* Database._data      (class attribute, export.py:116)
    instances,  \* the Database instances constructed so far (their own __dict__)
    added,      \* history: per instance, the rows and records added through it
    format,     \* export_db argument
    minified,   \* export_db argument
    filename,   \* export_db argument
    events,     \* the steps export_db has taken, in order
    written,    \* what was written to the file or to standard output
    status,     \* exit status of the run
    op,         \* the exporter or serializer called on the loaded database
    result,     \* what export_db rendered, or what that call returned
    resources,  \* the temporary file and the connection of SQLite3.__str__
    serializers, \* the serializer instances: their caches and what they ran
    verbose     \* --verbose: the logger of the run writes its info lines

vars == <<pc, cols, rows, data, instances, added, format, minified, filename,
          events, written, status, op, result, resources, serializers,
          verbose>>

---------------------------------------------------------------------------
(* Bounds *)

MaxId == 2          \* ids of siblings range over 1..MaxId
MaxRows == 2        \* source rows per parse
MaxRunRows == 1     \* source rows of the file an export run reads
MaxInstances == 2   \* Database instances constructed in one process

---------------------------------------------------------------------------
(* Python values *)

PyNone == <<"none">>
PyInt(n) == <<"int", n>>
PyStr(s) == <<"str", s>>

IsInt(v) == v[1] = "int"
IsStr(v) == v[1] = "str"

\* Python truthiness, as used by `if not x` and filter(None, ...)
Truthy(v) ==
    CASE v[1] = "none" -> FALSE
      [] v[1] = "int" -> v[2] # 0
      [] v[1] = "str" -> v[2] # <<>>
      [] OTHER -> TRUE

RECURSIVE Concat(_)
\* ''.join(parts)
Concat(parts) ==
    IF parts = <<>> THEN <<>> ELSE Head(parts) \o Concat(Tail(parts))

RECURSIVE Chars(_)
\* the characters of a non-negative integer's decimal form, str(n)
Chars(n) ==
    LET digit == << "0", "1", "2", "3", "4", "5", "6", "7", "8", "9" >>
    IN  IF n < 10 THEN << digit[n + 1] >>
        ELSE Append(Chars(n \div 10), digit[(n % 10) + 1])

Range(s) == { s[i] : i \in DOMAIN s }

---------------------------------------------------------------------------
(* Database: the schema (export.py:64-113) *)

DbTables ==
    << "uf", "mesorregiao", "microrregiao", "municipio", "distrito",
       "subdistrito" >>

DbFields(table_name) ==
    CASE table_name = "uf" ->
            << "id", "nome" >>
      [] table_name = "mesorregiao" ->
            << "id", "id_uf", "nome" >>
      [] table_name = "microrregiao" ->
            << "id", "id_mesorregiao", "id_uf", "nome" >>
      [] table_name = "municipio" ->
            << "id", "id_microrregiao", "id_mesorregiao", "id_uf", "nome" >>
      [] table_name = "distrito" ->
            << "id", "id_municipio", "id_microrregiao", "id_mesorregiao",
               "id_uf", "nome" >>
      [] table_name = "subdistrito" ->
            << "id", "id_distrito", "id_municipio", "id_microrregiao",
               "id_mesorregiao", "id_uf", "nome" >>

TableSet == Range(DbTables)

\* the position of a table in the hierarchy, 1 (uf) to 6 (subdistrito)
Level(table_name) == CHOOSE k \in DOMAIN DbTables : DbTables[k] = table_name

\* 'id_' + table_name, 'nome_' + table_name
IdCol(table_name) == "id_" \o table_name
NomeCol(table_name) == "nome_" \o table_name

---------------------------------------------------------------------------
(* The source rows and the parser.  parsers.py is not part of the sources; *)
(* a source row names one entity by its path from the root, and the parser *)
(* appends the row to _rows and every entity of the path that is not yet   *)
(* known to its table of _data, ancestors first.                           *)

RowNames == { << "a" >> }

\* a source row names the entity `leaf` at its depth, below the first entity
\* of every level above it; the tables below mesorregiao get one entity
SourceRows ==
    { r \in [depth : 1..6, leaf : 1..MaxId, nome : RowNames] :
        r.depth > 2 => r.leaf = 1 }

\* the id of the row's entity at level k: the parent's id followed by a digit
RECURSIVE EntityId(_, _)
EntityId(r, k) ==
    LET digit == IF k = r.depth THEN r.leaf ELSE 1
    IN  IF k = 1 THEN digit ELSE EntityId(r, k - 1) * 10 + digit

\* the record of the row's entity at level k, keyed by DbFields
EntityRecord(r, k) ==
    [ f \in Range(DbFields(DbTables[k])) |->
        CASE f = "id" -> PyInt(EntityId(r, k))
          [] f = "nome" -> PyStr(r.nome)
          [] OTHER ->
                LET a == CHOOSE j \in 1..6 : IdCol(DbTables[j]) = f
                IN  PyInt(EntityId(r, a)) ]

\* the 12 columns of the row, absent levels as None
RowTuple(r) ==
    [ c \in 1..12 |->
        LET k == (c + 1) \div 2
        IN  IF k > r.depth THEN PyNone
            ELSE IF c % 2 = 1 THEN PyInt(EntityId(r, k)) ELSE PyStr(r.nome) ]

HasId(recs, id) == \E i \in DOMAIN recs : recs[i]["id"] = id

RECURSIVE AddEntities(_, _, _)
AddEntities(d, r, k) ==
    IF k > r.depth THEN d
    ELSE LET t == DbTables[k]
             rec == EntityRecord(r, k)
             d2 == IF HasId(d[t], rec["id"]) THEN d
                   ELSE [d EXCEPT ![t] = Append(@, rec)]
         IN  AddEntities(d2, r, k + 1)

RECURSIVE ParseData(_, _)
ParseData(d, rs) ==
    IF rs = <<>> THEN d ELSE ParseData(AddEntities(d, Head(rs), 1), Tail(rs))

RECURSIVE RowTuples(_)
RowTuples(rs) ==
    IF rs = <<>> THEN <<>> ELSE << RowTuple(Head(rs)) >> \o RowTuples(Tail(rs))

RECURSIVE SeqsUpTo(_, _)
SeqsUpTo(S, n) ==
    IF n = 0 THEN { <<>> }
    ELSE LET shorter == SeqsUpTo(S, n - 1)
         IN  shorter \cup { Append(s, x) : s \in shorter, x \in S }

SourceFiles == SeqsUpTo(SourceRows, MaxRows)

EmptyData == [ t \in TableSet |-> <<>> ]

---------------------------------------------------------------------------
(* Database instances (export.py:64-126) *)

Years == { 2013, 2014 }

\* attribute lookup: the instance's own __dict__ first, then the class
GetAttr(i, name) ==
    IF name \in DOMAIN instances[i] THEN instances[i][name]
    ELSE CASE name = "_cols" -> cols
           [] name = "_rows" -> rows
           [] name = "_data" -> data

RECURSIVE InitCols(_, _)
\* the loop of Database.__init__ over _tables, from table k on
InitCols(c, k) ==
    IF k > Len(DbTables) THEN c
    ELSE InitCols(Append(Append(c, IdCol(DbTables[k])), NomeCol(DbTables[k])),
                  k + 1)

\* Database.__init__: self._cols and self._data are the class's objects
Database__init__(year) ==
    /\ instances' = Append(instances,
                           [_base |-> year, _name |-> "dtb_" \o ToString(year)])
    /\ cols' = InitCols(cols, 1)
    /\ data' = [ t \in TableSet |-> <<>> ]
    /\ rows' = rows
    /\ added' = Append(added, [rows |-> <<>>, data |-> EmptyData])

\* the parser working on instance i: one source row
ParseRowOn(i, r) ==
    /\ rows' = Append(GetAttr(i, "_rows"), RowTuple(r))
    /\ data' = AddEntities(GetAttr(i, "_data"), r, 1)
    /\ added' = [added EXCEPT ![i] =
                    [rows |-> Append(@.rows, RowTuple(r)),
                     data |-> AddEntities(@.data, r, 1)]]
    /\ UNCHANGED <<cols, instances>>

---------------------------------------------------------------------------
(* collections.OrderedDict: a sequence of <<key, value>> pairs *)

OdKeys(d) == [ i \in DOMAIN d |-> d[i][1] ]
OdHas(d, k) == \E i \in DOMAIN d : d[i][1] = k
OdGet(d, k) == d[CHOOSE i \in DOMAIN d : d[i][1] = k][2]

\* d[k] = v: a known key keeps its position, a new key goes last
OdSet(d, k, v) ==
    IF OdHas(d, k)
    THEN [ i \in DOMAIN d |-> IF d[i][1] = k THEN << k, v >> ELSE d[i] ]
    ELSE Append(d, << k, v >>)

\* del d[k]
OdDel(d, k) == SelectSeq(d, LAMBDA kv : kv[1] # k)

---------------------------------------------------------------------------
(* BaseExporter.__toDict__ (exporters.py:127-147) *)

\* a Python identifier string (a table or field name) as a str value: the
\* name is one atom of the string
Key(name) == PyStr(<< name >>)

\* str(v) for an int, and a str's .decode('utf-8')
PyStrOf(v) == IF IsInt(v) THEN PyStr(Chars(v[2])) ELSE v
Decode(v) == << "unicode", v[2] >>

RECURSIVE ItemObj(_, _, _, _)
\* the loop over _fields[table_name] that fills item_obj
ItemObj(item, fields, unicode, item_obj) ==
    IF fields = <<>> THEN item_obj
    ELSE LET key == Head(fields)
             v == IF unicode /\ IsStr(item[key]) THEN Decode(item[key])
                  ELSE item[key]
         IN  ItemObj(item, Tail(fields), unicode, OdSet(item_obj, Key(key), v))

RECURSIVE TableObj(_, _, _, _, _)
\* the loop over _data[table_name] that fills dict_obj[table_name]
TableObj(items, fields, strKeys, unicode, table_obj) ==
    IF items = <<>> THEN table_obj
    ELSE LET item_obj == ItemObj(Head(items), fields, unicode, <<>>)
             id == OdGet(item_obj, Key("id"))
             item_id == IF strKeys THEN PyStrOf(id) ELSE id
         IN  TableObj(Tail(items), fields, strKeys, unicode,
                      OdSet(table_obj, item_id, OdDel(item_obj, Key("id"))))

\* a variant for comparison: no table is skipped
KeepsEveryTable(d, table_name) == FALSE

\* if not self._db._data[table_name]: continue
IsSkipped(d, table_name) == d[table_name] = <<>>

RECURSIVE ToDictFrom(_, _, _, _, _)
ToDictFrom(d, k, strKeys, unicode, dict_obj) ==
    IF k > Len(DbTables) THEN dict_obj
    ELSE LET table_name == DbTables[k]
         IN  IF IsSkipped(d, table_name)
             THEN ToDictFrom(d, k + 1, strKeys, unicode, dict_obj)
             ELSE ToDictFrom(d, k + 1, strKeys, unicode,
                    OdSet(dict_obj, Key(table_name),
                          TableObj(d[table_name], DbFields(table_name),
                                   strKeys, unicode, <<>>)))

toDict(d, strKeys, unicode) == ToDictFrom(d, 1, strKeys, unicode, <<>>)

\* a variant for comparison: item_obj is the record itself
ItemObjIsTheItem == "item"

\* item_obj = collections.OrderedDict(): the object the loop fills, and
\* deletes 'id' from, is a new one
ItemObjTarget == "new"

\* a record of the database after __toDict__ has handled it
ItemAfter_toDict(item) ==
    IF ItemObjTarget = "item"
    THEN [ f \in DOMAIN item \ { "id" } |-> item[f] ]
    ELSE item

\* self._db._data after __toDict__
DataAfter_toDict(d) ==
    [ t \in DOMAIN d |-> [ i \in DOMAIN d[t] |-> ItemAfter_toDict(d[t][i]) ] ]

---------------------------------------------------------------------------
(* json.dumps and json.loads on the nested map of __toDict__.  A text is a *)
(* sequence of atoms: single characters, and runs of letters written as    *)
(* one atom where no operation looks inside them.                          *)

IsWs(c) == c \in { " ", "\n", "\t" }

RECURSIVE JsonEscape(_)
\* the body of a JSON string literal
JsonEscape(cs) ==
    IF cs = <<>> THEN <<>>
    ELSE LET c == Head(cs)
             e == CASE c = "\"" -> << "\\", "\"" >>
                    [] c = "\\" -> << "\\", "\\" >>
                    [] c = "\n" -> << "\\", "n" >>
                    [] c = "\t" -> << "\\", "t" >>
                    [] OTHER -> << c >>
         IN  e \o JsonEscape(Tail(cs))

JsonString(cs) == << "\"" >> \o JsonEscape(cs) \o << "\"" >>

\* a variant for comparison: every key is written as the empty string
JsonKeyEmpty(k) == JsonString(<<>>)

\* a key of a JSON object: an int key is written as the string of its digits
JsonKey(k) == IF IsInt(k) THEN JsonString(Chars(k[2])) ELSE JsonString(k[2])

JsonScalar(v) == IF IsInt(v) THEN Chars(v[2]) ELSE JsonString(v[2])

RECURSIVE Spaces(_)
Spaces(n) == IF n = 0 THEN <<>> ELSE << " " >> \o Spaces(n - 1)

\* '\n' + ' ' * (indent * level) when indenting, nothing otherwise
JsonNewline(min, level) ==
    IF min THEN <<>> ELSE << "\n" >> \o Spaces(2 * level)

RECURSIVE JsonValue(_, _, _, _), JsonMembers(_, _, _, _)
\* v is a map of nesting depth `depth` (0: a scalar), written at `level`
JsonValue(v, depth, min, level) ==
    IF depth = 0 THEN JsonScalar(v)
    ELSE IF v = <<>> THEN << "{", "}" >>
    ELSE << "{" >> \o JsonNewline(min, level + 1)
         \o JsonMembers(v, depth, min, level + 1)
         \o JsonNewline(min, level) \o << "}" >>

JsonMembers(d, depth, min, level) ==
    LET kv == Head(d)
        member == JsonKey(kv[1])
                  \o (IF min THEN << ":" >> ELSE << ":", " " >>)
                  \o JsonValue(kv[2], depth - 1, min, level)
    IN  IF Len(d) = 1 THEN member
        ELSE member
             \o (IF min THEN << "," >> ELSE << ",", " " >>)
             \o JsonNewline(min, level)
             \o JsonMembers(Tail(d), depth, min, level)

\* JSON.__str__ (exporters.py:179-187)
JSON__str__(d, min) == JsonValue(toDict(d, FALSE, FALSE), 3, min, 0)

RECURSIVE SkipWs(_, _)
SkipWs(t, i) == IF i <= Len(t) /\ IsWs(t[i]) THEN SkipWs(t, i + 1) ELSE i

RECURSIVE ParseJsonString(_, _, _)
\* t[i] is the first character after the opening quote
ParseJsonString(t, i, acc) ==
    IF t[i] = "\"" THEN << << "unicode", acc >>, i + 1 >>
    ELSE IF t[i] = "\\"
    THEN LET c == CASE t[i + 1] = "n" -> "\n"
                    [] t[i + 1] = "t" -> "\t"
                    [] OTHER -> t[i + 1]
         IN  ParseJsonString(t, i + 2, Append(acc, c))
    ELSE ParseJsonString(t, i + 1, Append(acc, t[i]))

DigitValue(c) ==
    CASE c = "0" -> 0 [] c = "1" -> 1 [] c = "2" -> 2 [] c = "3" -> 3
      [] c = "4" -> 4 [] c = "5" -> 5 [] c = "6" -> 6 [] c = "7" -> 7
      [] c = "8" -> 8 [] c = "9" -> 9

IsDigit(c) == c \in { "0", "1", "2", "3", "4", "5", "6", "7", "8", "9" }

RECURSIVE ParseJsonNumber(_, _, _)
ParseJsonNumber(t, i, acc) ==
    IF i <= Len(t) /\ IsDigit(t[i])
    THEN ParseJsonNumber(t, i + 1, acc * 10 + DigitValue(t[i]))
    ELSE << PyInt(acc), i >>

RECURSIVE ParseJsonValue(_, _), ParseJsonMembers(_, _, _)
\* the value at t[i..], and the position after it
ParseJsonValue(t, i) ==
    LET j == SkipWs(t, i)
    IN  CASE t[j] = "{" -> ParseJsonMembers(t, SkipWs(t, j + 1), <<>>)
          [] t[j] = "\"" -> ParseJsonString(t, j + 1, <<>>)
          [] OTHER -> ParseJsonNumber(t, j, 0)

ParseJsonMembers(t, i, acc) ==
    IF t[i] = "}" THEN << << "dict", acc >>, i + 1 >>
    ELSE LET key == ParseJsonString(t, i + 1, <<>>)
             colon == SkipWs(t, key[2])
             val == ParseJsonValue(t, colon + 1)
             next == SkipWs(t, val[2])
             acc2 == OdSet(acc, key[1], val[1])
         IN  IF t[next] = ","
             THEN ParseJsonMembers(t, SkipWs(t, next + 1), acc2)
             ELSE ParseJsonMembers(t, next, acc2)

\* json.loads(text, object_pairs_hook=OrderedDict)
JsonLoads(t) == ParseJsonValue(t, 1)[1]

---------------------------------------------------------------------------
(* SQL exporter: statement builders (exporters.py:220-271) *)

Dialects == { "standard", "sqlite" }

\* SQL.__init__: the dialect settings (exporters.py:276-285)
lazy_constraints(dialect) == dialect # "sqlite"

\* a variant for comparison: indexes are created with lazy constraints only
IndexesWhenLazy(dialect) == lazy_constraints(dialect)

create_indexes(dialect) == TRUE
escape_char(dialect) ==
    IF dialect = "sqlite" THEN << "'", "'" >> ELSE << "\\", "'" >>

RECURSIVE Join(_, _)
\* sep.join(parts)
Join(sep, parts) ==
    IF parts = <<>> THEN <<>>
    ELSE IF Len(parts) = 1 THEN parts[1]
    ELSE parts[1] \o sep \o Join(sep, Tail(parts))

\* 'CREATE TABLE {} (\n{}\n);\n'
SqlTable(table_name, args) ==
    << "CREATE", " ", "TABLE", " ", table_name, " ", "(", "\n" >>
    \o Join(<< ",", "\n" >>, args) \o << "\n", ")", ";", "\n" >>

\* '  {} {}'
SqlColumn(column_name, column_type) ==
    << " ", " ", column_name, " " >> \o column_type

SMALLINT == << "SMALLINT", " ", "NOT", " ", "NULL" >>
INTEGER == << "INTEGER", " ", "NOT", " ", "NULL" >>
BIGINT == << "BIGINT", " ", "NOT", " ", "NULL" >>
VARCHAR(n) == << "VARCHAR", "(", n, ")", " ", "NOT", " ", "NULL" >>

SqlPrimaryKey(dialect, table, column) ==
    LET pk_name == "pk_" \o table
    IN  IF lazy_constraints(dialect)
        THEN << "ALTER", " ", "TABLE", " ", table, "\n",
                " ", " ", "ADD", " ", "CONSTRAINT", " ", pk_name, "\n",
                " ", " ", " ", " ", "PRIMARY", " ", "KEY", " ",
                "(", column, ")", ";" >>
        ELSE << " ", " ", "CONSTRAINT", " ", pk_name, "\n",
                " ", " ", " ", " ", "PRIMARY", " ", "KEY", " ",
                "(", column, ")" >>

SqlForeignKey(dialect, table, column, foreign_table, foreign_column) ==
    LET fk_name == "fk_" \o table \o "_" \o foreign_table
    IN  IF lazy_constraints(dialect)
        THEN << "ALTER", " ", "TABLE", " ", table, "\n",
                " ", " ", "ADD", " ", "CONSTRAINT", " ", fk_name, "\n",
                " ", " ", " ", " ", "FOREIGN", " ", "KEY", " ",
                "(", column, ")", "\n",
                " ", " ", " ", " ", " ", " ", "REFERENCES", " ",
                foreign_table, "(", foreign_column, ")", ";" >>
        ELSE << " ", " ", "CONSTRAINT", " ", fk_name, "\n",
                " ", " ", " ", " ", "FOREIGN", " ", "KEY", " ",
                "(", column, ")", "\n",
                " ", " ", " ", " ", " ", " ", "REFERENCES", " ",
                foreign_table, "(", foreign_column, ")" >>

\* 'CREATE INDEX {} ON {} ({});'
SqlIndex(index_name, table_name, indexed_column) ==
    << "CREATE", " ", "INDEX", " ", index_name, " ", "ON", " ", table_name,
       " ", "(", indexed_column, ")", ";" >>

\* 'INSERT INTO {} VALUES ({});'
SqlInsert(table_name, columns) ==
    << "INSERT", " ", "INTO", " ", table_name, " ", "VALUES", " ", "(" >>
    \o Join(<< ",", " " >>, columns) \o << ")", ";" >>

\* a replacement field '{name}' of a format string, as one atom
Field(field_name) == "{" \o field_name \o "}"

\* '{name}' for an int, repr('{name}') = "'{name}'" for a str
SqlInsertField(field_name, field_type) ==
    IF field_type = "str" THEN << "'", Field(field_name), "'" >>
    ELSE << Field(field_name) >>

RECURSIVE Replace(_, _, _)
\* value.replace(old, new), old a single character
Replace(value, old, new) ==
    IF value = <<>> THEN <<>>
    ELSE (IF Head(value) = old THEN new ELSE << Head(value) >>)
         \o Replace(Tail(value), old, new)

SqlQuote(dialect, value) == Replace(value, "'", escape_char(dialect))

---------------------------------------------------------------------------
(* SQL.__init__: the SQL data (exporters.py:288-477) *)

\* self._tables
SqlTables(table_name) ==
    CASE table_name = "uf" ->
            << SqlColumn("id", SMALLINT),
               SqlColumn("nome", VARCHAR("32")) >>
      [] table_name = "mesorregiao" ->
            << SqlColumn("id", SMALLINT),
               SqlColumn("id_uf", SMALLINT),
               SqlColumn("nome", VARCHAR("64")) >>
      [] table_name = "microrregiao" ->
            << SqlColumn("id", INTEGER),
               SqlColumn("id_mesorregiao", SMALLINT),
               SqlColumn("id_uf", SMALLINT),
               SqlColumn("nome", VARCHAR("64")) >>
      [] table_name = "municipio" ->
            << SqlColumn("id", INTEGER),
               SqlColumn("id_microrregiao", INTEGER),
               SqlColumn("id_mesorregiao", SMALLINT),
               SqlColumn("id_uf", SMALLINT),
               SqlColumn("nome", VARCHAR("64")) >>
      [] table_name = "distrito" ->
            << SqlColumn("id", INTEGER),
               SqlColumn("id_municipio", INTEGER),
               SqlColumn("id_microrregiao", INTEGER),
               SqlColumn("id_mesorregiao", SMALLINT),
               SqlColumn("id_uf", SMALLINT),
               SqlColumn("nome", VARCHAR("64")) >>
      [] table_name = "subdistrito" ->
            << SqlColumn("id", BIGINT),
               SqlColumn("id_distrito", INTEGER),
               SqlColumn("id_municipio", INTEGER),
               SqlColumn("id_microrregiao", INTEGER),
               SqlColumn("id_mesorregiao", SMALLINT),
               SqlColumn("id_uf", SMALLINT),
               SqlColumn("nome", VARCHAR("64")) >>

\* self._constraints, each statement with the table it references
SqlConstraints(dialect, table_name) ==
    CASE table_name = "uf" ->
            << [stmt |-> SqlPrimaryKey(dialect, "uf", "id"), ref |-> ""] >>
      [] table_name = "mesorregiao" ->
            << [stmt |-> SqlPrimaryKey(dialect, "mesorregiao", "id"), ref |-> ""],
               [stmt |-> SqlForeignKey(dialect, "mesorregiao", "id_uf", "uf", "id"),
                ref |-> "uf"] >>
      [] table_name = "microrregiao" ->
            << [stmt |-> SqlPrimaryKey(dialect, "microrregiao", "id"), ref |-> ""],
               [stmt |-> SqlForeignKey(dialect, "microrregiao", "id_mesorregiao", "mesorregiao", "id"),
                ref |-> "mesorregiao"],
               [stmt |-> SqlForeignKey(dialect, "microrregiao", "id_uf", "uf", "id"),
                ref |-> "uf"] >>
      [] table_name = "municipio" ->
            << [stmt |-> SqlPrimaryKey(dialect, "municipio", "id"), ref |-> ""],
               [stmt |-> SqlForeignKey(dialect, "municipio", "id_microrregiao", "microrregiao", "id"),
                ref |-> "microrregiao"],
               [stmt |-> SqlForeignKey(dialect, "municipio", "id_mesorregiao", "mesorregiao", "id"),
                ref |-> "mesorregiao"],
               [stmt |-> SqlForeignKey(dialect, "municipio", "id_uf", "uf", "id"),
                ref |-> "uf"] >>
      [] table_name = "distrito" ->
            << [stmt |-> SqlPrimaryKey(dialect, "distrito", "id"), ref |-> ""],
               [stmt |-> SqlForeignKey(dialect, "distrito", "id_municipio", "municipio", "id"),
                ref |-> "municipio"],
               [stmt |-> SqlForeignKey(dialect, "distrito", "id_microrregiao", "microrregiao", "id"),
                ref |-> "microrregiao"],
               [stmt |-> SqlForeignKey(dialect, "distrito", "id_mesorregiao", "mesorregiao", "id"),
                ref |-> "mesorregiao"],
               [stmt |-> SqlForeignKey(dialect, "distrito", "id_uf", "uf", "id"),
                ref |-> "uf"] >>
      [] table_name = "subdistrito" ->
            << [stmt |-> SqlPrimaryKey(dialect, "subdistrito", "id"), ref |-> ""],
               [stmt |-> SqlForeignKey(dialect, "subdistrito", "id_distrito", "distrito", "id"),
                ref |-> "distrito"],
               [stmt |-> SqlForeignKey(dialect, "subdistrito", "id_municipio", "municipio", "id"),
                ref |-> "municipio"],
               [stmt |-> SqlForeignKey(dialect, "subdistrito", "id_microrregiao", "microrregiao", "id"),
                ref |-> "microrregiao"],
               [stmt |-> SqlForeignKey(dialect, "subdistrito", "id_mesorregiao", "mesorregiao", "id"),
                ref |-> "mesorregiao"],
               [stmt |-> SqlForeignKey(dialect, "subdistrito", "id_uf", "uf", "id"),
                ref |-> "uf"] >>

\* self._indexes; 'uf' is not a key of it
SqlIndexes(table_name) ==
    CASE table_name = "mesorregiao" ->
            << SqlIndex("fk_mesorregiao_uf", "mesorregiao", "id_uf") >>
      [] table_name = "microrregiao" ->
            << SqlIndex("fk_microrregiao_mesorregiao", "microrregiao", "id_mesorregiao"),
               SqlIndex("fk_microrregiao_uf", "microrregiao", "id_uf") >>
      [] table_name = "municipio" ->
            << SqlIndex("fk_municipio_microrregiao", "municipio", "id_microrregiao"),
               SqlIndex("fk_municipio_mesorregiao", "municipio", "id_mesorregiao"),
               SqlIndex("fk_municipio_uf", "municipio", "id_uf") >>
      [] table_name = "distrito" ->
            << SqlIndex("fk_distrito_municipio", "distrito", "id_municipio"),
               SqlIndex("fk_distrito_microrregiao", "distrito", "id_microrregiao"),
               SqlIndex("fk_distrito_mesorregiao", "distrito", "id_mesorregiao"),
               SqlIndex("fk_distrito_uf", "distrito", "id_uf") >>
      [] table_name = "subdistrito" ->
            << SqlIndex("fk_subdistrito_distrito", "subdistrito", "id_distrito"),
               SqlIndex("fk_subdistrito_municipio", "subdistrito", "id_municipio"),
               SqlIndex("fk_subdistrito_microrregiao", "subdistrito", "id_microrregiao"),
               SqlIndex("fk_subdistrito_mesorregiao", "subdistrito", "id_mesorregiao"),
               SqlIndex("fk_subdistrito_uf", "subdistrito", "id_uf") >>
      [] OTHER -> <<>>

HasIndexes(table_name) == table_name # "uf"

\* self._inserts
SqlInserts(table_name) ==
    CASE table_name = "uf" ->
            << SqlInsertField("id", "int"),
               SqlInsertField("nome", "str") >>
      [] table_name = "mesorregiao" ->
            << SqlInsertField("id", "int"),
               SqlInsertField("id_uf", "int"),
               SqlInsertField("nome", "str") >>
      [] table_name = "microrregiao" ->
            << SqlInsertField("id", "int"),
               SqlInsertField("id_mesorregiao", "int"),
               SqlInsertField("id_uf", "int"),
               SqlInsertField("nome", "str") >>
      [] table_name = "municipio" ->
            << SqlInsertField("id", "int"),
               SqlInsertField("id_microrregiao", "int"),
               SqlInsertField("id_mesorregiao", "int"),
               SqlInsertField("id_uf", "int"),
               SqlInsertField("nome", "str") >>
      [] table_name = "distrito" ->
            << SqlInsertField("id", "int"),
               SqlInsertField("id_municipio", "int"),
               SqlInsertField("id_microrregiao", "int"),
               SqlInsertField("id_mesorregiao", "int"),
               SqlInsertField("id_uf", "int"),
               SqlInsertField("nome", "str") >>
      [] table_name = "subdistrito" ->
            << SqlInsertField("id", "int"),
               SqlInsertField("id_distrito", "int"),
               SqlInsertField("id_municipio", "int"),
               SqlInsertField("id_microrregiao", "int"),
               SqlInsertField("id_mesorregiao", "int"),
               SqlInsertField("id_uf", "int"),
               SqlInsertField("nome", "str") >>

---------------------------------------------------------------------------
(* SQL.__str__ (exporters.py:479-546) *)

RECURSIVE LStrip(_)
LStrip(t) == IF t # <<>> /\ IsWs(Head(t)) THEN LStrip(Tail(t)) ELSE t

RECURSIVE RStrip(_)
RStrip(t) ==
    IF t # <<>> /\ IsWs(t[Len(t)]) THEN RStrip(SubSeq(t, 1, Len(t) - 1)) ELSE t

\* str.strip()
Strip(t) == RStrip(LStrip(t))

RECURSIVE Format(_, _)
\* template.format(**values): every replacement field is replaced by the
\* text of its value, which is not scanned again
Format(template, values) ==
    IF template = <<>> THEN <<>>
    ELSE LET a == Head(template)
             keys == { k \in DOMAIN values : a = Field(k) }
         IN  (IF keys = {} THEN << a >> ELSE values[CHOOSE k \in keys : TRUE])
             \o Format(Tail(template), values)

\* the comment blocks written when the output is not minified
SqlComment(what, table_name) ==
    << "\n", "-", "-", "\n", "-", "-", " ", what, " ", "for", " ", "table",
       " ", "\"", table_name, "\"", "\n", "-", "-", "\n" >>

\* the OrderedDict `data` of one item, each value as the text format() writes
SqlItemData(dialect, table_name, item) ==
    [ key \in Range(DbFields(table_name)) |->
        IF IsInt(item[key]) THEN Chars(item[key][2])
        ELSE SqlQuote(dialect, item[key][2]) ]

SqlInsertStmt(dialect, table_name, item) ==
    Format(Strip(SqlInsert(table_name, SqlInserts(table_name))),
           SqlItemData(dialect, table_name, item))
    \o << "\n" >>

Texts(recs) == [ i \in DOMAIN recs |-> recs[i].stmt ]

\* the comment before a part of a table's script, unless minified
SqlCommentPiece(min, what, table_name) ==
    IF min THEN <<>>
    ELSE << [kind |-> "comment", table |-> table_name,
             text |-> SqlComment(what, table_name)] >>

\* sql += self.__table(table_name, *cols)  (exporters.py:494-497)
SqlCreatePiece(dialect, table_name) ==
    LET constraints == SqlConstraints(dialect, table_name)
        columns == IF lazy_constraints(dialect) THEN SqlTables(table_name)
                   ELSE SqlTables(table_name) \o Texts(constraints)
    IN  << [kind |-> "create", table |-> table_name,
            refs |-> IF lazy_constraints(dialect) THEN {}
                     ELSE { constraints[i].ref : i \in DOMAIN constraints }
                          \ { "" },
            text |-> SqlTable(table_name, columns)] >>

\* a variant for comparison: the last record of the table is left out
SqlInsertPiecesButLast(d, dialect, table_name) ==
    [ i \in 1..(Len(d[table_name]) - 1) |->
        [kind |-> "insert", table |-> table_name, item |-> d[table_name][i],
         text |-> SqlInsertStmt(dialect, table_name, d[table_name][i])] ]

\* the loop over _data[table_name] (exporters.py:505-513)
SqlInsertPieces(d, dialect, table_name) ==
    [ i \in DOMAIN d[table_name] |->
        [kind |-> "insert", table |-> table_name, item |-> d[table_name][i],
         text |-> SqlInsertStmt(dialect, table_name, d[table_name][i])] ]

\* self.__constraints(*self._constraints[table_name]):
\* '\n'.join(constraints) + '\n'
SqlAlterPieces(dialect, table_name) ==
    [ i \in DOMAIN SqlConstraints(dialect, table_name) |->
        [kind |-> "alter", table |-> table_name,
         ref |-> SqlConstraints(dialect, table_name)[i].ref,
         text |-> SqlConstraints(dialect, table_name)[i].stmt \o << "\n" >>] ]

\* self.__indexes(*self._indexes[table_name]): '\n'.join(indexes) + '\n'
SqlIndexPieces(table_name) ==
    [ i \in DOMAIN SqlIndexes(table_name) |->
        [kind |-> "index", table |-> table_name,
         text |-> SqlIndexes(table_name)[i] \o << "\n" >>] ]

\* a variant for comparison: the constraints are added before the data
ConstraintsBeforeData(structure, inserts, constraints, indexes) ==
    structure \o constraints \o inserts \o indexes

\* the order in which one iteration appends the parts of a table's script
SqlTableScript(structure, inserts, constraints, indexes) ==
    structure \o inserts \o constraints \o indexes

\* what one iteration of the loop over _tables appends to sql, as the
\* sequence of its pieces: comments and statements, each with its text
SqlTablePieces(d, dialect, min, table_name) ==
    SqlTableScript(
        SqlCommentPiece(min, "Structure", table_name)
        \o SqlCreatePiece(dialect, table_name),
        SqlCommentPiece(min, "Data", table_name)
        \o SqlInsertPieces(d, dialect, table_name),
        IF lazy_constraints(dialect)
        THEN SqlCommentPiece(min, "Constraints", table_name)
             \o SqlAlterPieces(dialect, table_name)
        ELSE <<>>,
        IF create_indexes(dialect) /\ HasIndexes(table_name)
        THEN SqlCommentPiece(min, "Indexes", table_name)
             \o SqlIndexPieces(table_name)
        ELSE <<>>)

RECURSIVE SqlPiecesLeafFirst(_, _, _, _)
\* a variant for comparison: the tables are taken leaf to root
SqlPiecesLeafFirst(d, dialect, min, k) ==
    IF k > Len(DbTables) THEN <<>>
    ELSE SqlPiecesLeafFirst(d, dialect, min, k + 1)
         \o (IF IsSkipped(d, DbTables[k]) THEN <<>>
             ELSE SqlTablePieces(d, dialect, min, DbTables[k]))

RECURSIVE SqlPiecesFrom(_, _, _, _)
\* for table_name in self._db._tables, from table k on
SqlPiecesFrom(d, dialect, min, k) ==
    IF k > Len(DbTables) THEN <<>>
    ELSE (IF IsSkipped(d, DbTables[k]) THEN <<>>
          ELSE SqlTablePieces(d, dialect, min, DbTables[k]))
         \o SqlPiecesFrom(d, dialect, min, k + 1)

\* the pieces of the script, in the order the loop appends them
SqlPieces(d, dialect, min) == SqlPiecesFrom(d, dialect, min, 1)

\* the statements of the script: its pieces without the comments
SqlStatements(d, dialect, min) ==
    SelectSeq(SqlPieces(d, dialect, min), LAMBDA p : p.kind # "comment")

---------------------------------------------------------------------------
(* The minification passes (exporters.py:538-544) *)

\* \w of a byte string: letters, digits and the underscore.  Every atom of
\* more than one character is a run of these.
NonWord ==
    { " ", "\n", "\t", ",", ";", "(", ")", "'", "\"", "\\", "-", "{", "}",
      ":", "<", ">", "&", "/", "=", "?", "!", "." }
IsWord(c) == c \notin NonWord

\* t without the positions of D
Remove(t, D) ==
    LET indexed == [ i \in DOMAIN t |-> << i, t[i] >> ]
        kept == SelectSeq(indexed, LAMBDA p : p[1] \notin D)
    IN  [ j \in DOMAIN kept |-> kept[j][2] ]

\* the position before the run of whitespace that t[i] is part of
RECURSIVE RunStart(_, _)
RunStart(t, i) == IF i >= 1 /\ IsWs(t[i]) THEN RunStart(t, i - 1) ELSE i

\* re.sub('(?<=[;(])\s+', '', sql): every run of whitespace that follows a
\* semicolon or an opening parenthesis
Pass1(t) ==
    Remove(t, { i \in 2..Len(t) :
                  /\ IsWs(t[i])
                  /\ RunStart(t, i) >= 1
                  /\ t[RunStart(t, i)] \in { ";", "(" } })

\* re.sub(',\s(?=\')|,\s+', ',', sql): the whitespace character between a
\* comma and a quote, or else every run of whitespace that follows a comma
Pass2(t) ==
    Remove(t, { i \in 2..Len(t) :
                  /\ IsWs(t[i])
                  /\ LET j == RunStart(t, i)
                     IN  /\ j >= 1
                         /\ t[j] = ","
                         /\ \/ i = j + 1
                            \/ ~ (j + 2 <= Len(t) /\ t[j + 2] = "'") })

\* re.sub('\s+', ' ', sql): of every run of whitespace the first character
\* stays, as a space
Pass3(t) ==
    LET first == [ i \in DOMAIN t |-> IF IsWs(t[i]) THEN " " ELSE t[i] ]
    IN  Remove(first, { i \in 2..Len(t) : IsWs(t[i]) /\ IsWs(t[i - 1]) })

\* re.sub('(?<=\W)\s(?=\W)', '', sql)
Pass4(t) ==
    Remove(t, { i \in 2..(Len(t) - 1) :
                  IsWs(t[i]) /\ ~ IsWord(t[i - 1]) /\ ~ IsWord(t[i + 1]) })

\* re.sub('(?<=\w)\s(?=\))', '', sql)
Pass5(t) ==
    Remove(t, { i \in 2..(Len(t) - 1) :
                  IsWs(t[i]) /\ IsWord(t[i - 1]) /\ t[i + 1] = ")"  })

\* the number of quote characters in t[i..]
QuotesFrom(t, i) == Cardinality({ j \in i..Len(t) : t[j] = "'" })

\* re.sub("\s\((?=(?:(?:[^']*'){2})*[^']*$)", '(', sql): a whitespace
\* character before a parenthesis that an even number of quotes follows
Pass6(t) ==
    Remove(t, { i \in 1..(Len(t) - 1) :
                  /\ IsWs(t[i])
                  /\ t[i + 1] = "("
                  /\ QuotesFrom(t, i + 2) % 2 = 0  })

SqlMinify(t) == Pass6(Pass5(Pass4(Pass3(Pass2(Pass1(t))))))

RECURSIVE ConcatTexts(_)
ConcatTexts(pieces) ==
    IF pieces = <<>> THEN <<>>
    ELSE Head(pieces).text \o ConcatTexts(Tail(pieces))

\* SQL.__str__
SQL__str__(d, min, dialect) ==
    LET sql == Strip(ConcatTexts(SqlPieces(d, dialect, min)))
    IN  IF min THEN SqlMinify(sql) ELSE sql

---------------------------------------------------------------------------
(* XML.__str__ (exporters.py:572-596).  The document is the sequence of    *)
(* its nodes in document order, as lxml.etree.tostring writes them.        *)

RECURSIVE XmlEscape(_)
XmlEscape(cs) ==
    IF cs = <<>> THEN <<>>
    ELSE LET c == Head(cs)
             e == CASE c = "&" -> << "&", "amp", ";" >>
                    [] c = "<" -> << "&", "lt", ";" >>
                    [] c = ">" -> << "&", "gt", ";" >>
                    [] OTHER -> << c >>
         IN  e \o XmlEscape(Tail(cs))

\* str(item[field_name])
StrOf(v) == IF IsInt(v) THEN Chars(v[2]) ELSE v[2]

XmlRow(table_name, item) ==
    << [kind |-> "start", tag |-> "row", name |-> ""] >>
    \o Concat([ i \in DOMAIN DbFields(table_name) |->
                  LET field_name == DbFields(table_name)[i]
                  IN  << [kind |-> "start", tag |-> "field",
                          name |-> field_name],
                         [kind |-> "text",
                          text |-> XmlEscape(StrOf(item[field_name]))],
                         [kind |-> "end", tag |-> "field"] >> ])
    \o << [kind |-> "end", tag |-> "row"] >>

XmlTable(d, min, table_name) ==
    (IF min THEN <<>>
     ELSE << [kind |-> "comment",
              text |-> << " ", "Table", " ", table_name, " " >>] >>)
    \o << [kind |-> "start", tag |-> "table", name |-> table_name] >>
    \o Concat([ i \in DOMAIN d[table_name] |->
                  XmlRow(table_name, d[table_name][i]) ])
    \o << [kind |-> "end", tag |-> "table"] >>

XML__str__(d, min, db_name) ==
    << [kind |-> "declaration", pretty_print |-> ~ min],
       [kind |-> "start", tag |-> "database", name |-> db_name] >>
    \o Concat([ k \in DOMAIN DbTables |->
                  IF IsSkipped(d, DbTables[k]) THEN <<>>
                  ELSE XmlTable(d, min, DbTables[k]) ])
    \o << [kind |-> "end", tag |-> "database"] >>

---------------------------------------------------------------------------
(* plist.__str__ (exporters.py:206-212): plistlib.writePlistToString on    *)
(* the nested map with string keys, with the writeDict of                  *)
(* exporters.py:97-110.  Every tag is one atom of the text.                *)

RECURSIVE Tabs(_)
Tabs(n) == IF n = 0 THEN <<>> ELSE << "\t" >> \o Tabs(n - 1)

\* PlistWriter.writeln: the indentation, the line, a newline
PlistLine(indent, line) == Tabs(indent) \o line \o << "\n" >>

\* simpleElement(element, value): <element>escaped value</element>
PlistSimple(element, cs) ==
    << "<" \o element \o ">" >> \o XmlEscape(cs)
    \o << "</" \o element \o ">" >>

RECURSIVE PlistValue(_, _, _)
\* writeValue: v is a map of nesting depth `depth` (0: an int or a string)
PlistValue(v, depth, indent) ==
    IF depth = 0
    THEN PlistLine(indent,
                   IF IsInt(v) THEN PlistSimple("integer", Chars(v[2]))
                   ELSE PlistSimple("string", v[2]))
    ELSE PlistLine(indent, << "<dict>" >>)
         \o Concat([ i \in DOMAIN v |->
                       PlistLine(indent + 1, PlistSimple("key", v[i][1][2]))
                       \o PlistValue(v[i][2], depth - 1, indent + 1) ])
         \o PlistLine(indent, << "</dict>" >>)

plistlib_writePlistToString(obj) ==
    << "<?xml version=\"1.0\" encoding=\"UTF-8\"?>", "\n",
       "<!DOCTYPE plist PUBLIC \"-//Apple Computer//DTD PLIST 1.0//EN\" \"http://www.apple.com/DTDs/PropertyList-1.0.dtd\">", "\n", "<plist version=\"1.0\">", "\n" >>
    \o PlistValue(obj, 3, 0)
    \o << "</plist>", "\n" >>

\* re.sub('[\n\t]+', '', plist_str) if self._minified else plist_str
plist__str__(d, min) ==
    LET plist_str == plistlib_writePlistToString(toDict(d, TRUE, TRUE))
    IN  IF min THEN SelectSeq(plist_str, LAMBDA c : c \notin { "\n", "\t" })
        ELSE plist_str

RECURSIVE ParsePlistText(_, _, _, _)
\* the character data up to the end tag `close`, entities resolved
ParsePlistText(t, i, close, acc) ==
    IF t[i] = close THEN << acc, i + 1 >>
    ELSE IF t[i] = "&"
    THEN LET c == CASE t[i + 1] = "amp" -> "&"
                    [] t[i + 1] = "lt" -> "<"
                    [] OTHER -> ">"
         IN  ParsePlistText(t, i + 3, close, Append(acc, c))
    ELSE ParsePlistText(t, i + 1, close, Append(acc, t[i]))

RECURSIVE ParsePlistValue(_, _), ParsePlistMembers(_, _, _)
\* the value whose start tag is t[i]
ParsePlistValue(t, i) ==
    CASE t[i] = "<dict>" -> ParsePlistMembers(t, SkipWs(t, i + 1), <<>>)
      [] t[i] = "<string>" ->
            LET text == ParsePlistText(t, i + 1, "</string>", <<>>)
            IN  << << "unicode", text[1] >>, text[2] >>
      [] t[i] = "<integer>" ->
            LET text == ParsePlistText(t, i + 1, "</integer>", <<>>)
            IN  << ParseJsonNumber(text[1] \o << " " >>, 1, 0)[1], text[2] >>

ParsePlistMembers(t, i, acc) ==
    IF t[i] = "</dict>" THEN << << "dict", acc >>, i + 1 >>
    ELSE LET key == ParsePlistText(t, i + 1, "</key>", <<>>)
             val == ParsePlistValue(t, SkipWs(t, key[2]))
         IN  ParsePlistMembers(t, SkipWs(t, val[2]),
                               OdSet(acc, << "unicode", key[1] >>, val[1]))

\* plistlib.readPlistFromString(text), with the order of the keys kept
plistlib_readPlistFromString(t) ==
    LET start == CHOOSE i \in DOMAIN t : t[i] = "<plist version=\"1.0\">"
    IN  ParsePlistValue(t, SkipWs(t, start + 1))[1]

---------------------------------------------------------------------------
(* CSV.__str__ (exporters.py:155-171): the rows handed to csv.writer *)

\* a variant for comparison: every row is written as it is
CSVUnfiltered(c, rs, min) ==
    [quoting |-> IF min THEN "QUOTE_MINIMAL" ELSE "QUOTE_NONNUMERIC",
     lines |-> << c >> \o rs]

CSV__str__(c, rs, min) ==
    [quoting |-> IF min THEN "QUOTE_MINIMAL" ELSE "QUOTE_NONNUMERIC",
     lines |-> << c >> \o [ i \in DOMAIN rs |-> SelectSeq(rs[i], Truthy) ]]

---------------------------------------------------------------------------
(* The exporters of FORMATS, by their _format attribute *)

FORMATS == { "csv", "json", "php", "plist", "sql", "sqlite3", "xml", "yaml" }

\* str(exporter(self._db, minified)).  php and yaml hand the nested map to
\* phpserialize and yaml, sqlite3 hands the script of the
\* sqlite dialect to the database engine.
ExporterStr(fmt, c, rs, d, min, db_name) ==
    CASE fmt = "csv" -> CSV__str__(c, rs, min)
      [] fmt = "json" -> JSON__str__(d, min)
      [] fmt = "php" -> [writer |-> "phpserialize",
                         obj |-> toDict(d, FALSE, FALSE)]
      [] fmt = "plist" -> plist__str__(d, min)
      [] fmt = "sql" -> SQL__str__(d, min, "standard")
      [] fmt = "sqlite3" -> [writer |-> "sqlite3",
                             script |-> SQL__str__(d, min, "sqlite")]
      [] fmt = "xml" -> XML__str__(d, min, db_name)
      [] fmt = "yaml" -> [writer |-> "yaml", minified |-> min,
                          obj |-> toDict(d, FALSE, FALSE)]

\* exporter._extension
Extension(fmt) ==
    CASE fmt = "csv" -> ".csv" [] fmt = "json" -> ".json"
      [] fmt = "php" -> ".phpd" [] fmt = "plist" -> ".plist"
      [] fmt = "sql" -> ".sql" [] fmt = "sqlite3" -> ".sqlite3"
      [] fmt = "xml" -> ".xml" [] fmt = "yaml" -> ".yaml"

---------------------------------------------------------------------------
(* The dataset serializers (serializers.py).  The schema, the repository   *)
(* and the records' own serialize() are not part of the sources: the six   *)
(* entities carry the fields of the data model under their English names.  *)

Entities ==
    << "states", "mesoregions", "microregions", "municipalities",
       "districts", "subdistricts" >>

EntityName ==
    << "state", "mesoregion", "microregion", "municipality", "district",
       "subdistrict" >>

\* the column of entity k that holds the data model's field f
ColumnOf(f) ==
    CASE f = "id" -> "id"
      [] f = "nome" -> "name"
      [] OTHER -> EntityName[CHOOSE j \in 1..6 : IdCol(DbTables[j]) = f]
                  \o "_id"

\* entity.__table__.columns, by name
EntityColumns(k) ==
    [ i \in DOMAIN DbFields(DbTables[k]) |-> ColumnOf(DbFields(DbTables[k])[i]) ]

\* StateRepository().loadAll() and the relationships of every state: the
\* entities of table k, state by state
Related(d, k) ==
    IF k = 1 THEN d["uf"]
    ELSE Concat([ s \in DOMAIN d["uf"] |->
                    SelectSeq(d[DbTables[k]],
                              LAMBDA r : r["id_uf"] = d["uf"][s]["id"]) ])

\* BaseSerializer.__records__ (serializers.py:30-49)
Records(d) == [ k \in DOMAIN Entities |-> Related(d, k) ]

\* record.serialize(): the record as a map from column name to value
RecordSerialize(k, r) ==
    [ i \in DOMAIN DbFields(DbTables[k]) |->
        << ColumnOf(DbFields(DbTables[k])[i]), r[DbFields(DbTables[k])[i]] >> ]

\* record.serialize(flatten=True): the ids of the record and of its
\* ancestors and its name, under entity-qualified names, root first
RecordFlatten(k, r) ==
    [ j \in 1..k |->
        << EntityName[j] \o "_id",
           r[IF j = k THEN "id" ELSE IdCol(DbTables[j])] >> ]
    \o << << EntityName[k] \o "_name", r["nome"] >> >>

Locales == { "en", "pt" }

\* _(key): the key itself without a translation, the catalogue's otherwise
Translate(locale, key) == IF locale = "en" THEN key ELSE "pt:" \o key

\* Serializer.serialize (serializers.py:83-120)
SerializeTable(d, k, localize, forceStr, locale) ==
    LET table == IF localize THEN Translate(locale, Entities[k])
                 ELSE Entities[k]
        record(r) ==
            LET ser == RecordSerialize(k, r)
            IN  [ i \in DOMAIN EntityColumns(k) |->
                    LET column == EntityColumns(k)[i]
                        value == OdGet(ser, column)
                    IN  << IF localize THEN Translate(locale, column)
                           ELSE column,
                           IF forceStr THEN PyStr(StrOf(value)) ELSE value >> ]
    IN  << table, [ i \in DOMAIN Records(d)[k] |-> record(Records(d)[k][i]) ] >>

RECURSIVE SerializeFrom(_, _, _, _, _, _)
SerializeFrom(d, k, localize, forceStr, locale, records) ==
    IF k > Len(Entities) THEN records
    ELSE IF Records(d)[k] = <<>>
    THEN SerializeFrom(d, k + 1, localize, forceStr, locale, records)
    ELSE LET t == SerializeTable(d, k, localize, forceStr, locale)
         IN  SerializeFrom(d, k + 1, localize, forceStr, locale,
                           OdSet(records, t[1], t[2]))

Serializer_serialize(d, localize, forceStr, locale) ==
    SerializeFrom(d, 1, localize, forceStr, locale, <<>>)

\* record.get(key) or 0
GetOr0(record, key) ==
    IF OdHas(record, key) /\ Truthy(OdGet(record, key))
    THEN OdGet(record, key)[2] ELSE 0

\* the key function of the sort (serializers.py:142-147)
SortKey(record) ==
    [ j \in 1..6 |-> GetOr0(record, EntityName[j] \o "_id") ]

RECURSIVE TupleLess(_, _, _)
\* a < b for tuples of integers, from position i on
TupleLess(a, b, i) ==
    IF i > Len(a) \/ i > Len(b) THEN Len(a) < Len(b)
    ELSE IF a[i] # b[i] THEN a[i] < b[i]
    ELSE TupleLess(a, b, i + 1)

\* list.sort(key=...): stable, by the key function of the sort
RECURSIVE SortedInsert(_, _)
SortedInsert(sorted, x) ==
    IF sorted = <<>> THEN << x >>
    ELSE IF TupleLess(SortKey(x), SortKey(sorted[Len(sorted)]), 1)
    THEN Append(SortedInsert(SubSeq(sorted, 1, Len(sorted) - 1), x),
                sorted[Len(sorted)])
    ELSE Append(sorted, x)

RECURSIVE SortFrom(_, _, _)
SortFrom(list, i, sorted) ==
    IF i > Len(list) THEN sorted
    ELSE SortFrom(list, i + 1, SortedInsert(sorted, list[i]))

Sort(list) == SortFrom(list, 1, <<>>)

\* the records appended before the sort (serializers.py:134-140)
FlattenedRecords(d, locale) ==
    Concat([ k \in DOMAIN Entities |->
               [ i \in DOMAIN Records(d)[k] |->
                   LET flat == RecordFlatten(k, Records(d)[k][i])
                   IN  [ j \in DOMAIN flat |->
                           << Translate(locale, flat[j][1]), flat[j][2] >> ] ] ])

\* FlattenedSerializer.serialize (serializers.py:126-149)
FlattenedSerializer_serialize(d, locale) ==
    Sort(FlattenedRecords(d, locale))

---------------------------------------------------------------------------
(* The export run: DTB(base, logger), get_db(), export_db(...) and the     *)
(* exception handler of the main program (export.py:129-209, 290-297)      *)

\* a cache of cachedmethod on an instance: nothing yet, or the value kept
NoCache == << "none" >>

SerializerClasses == { "Serializer", "FlattenedSerializer" }

\* no serializer has been constructed
NoSerializers ==
    [ c \in SerializerClasses |->
        [made |-> FALSE, records |-> NoCache, serialized |-> NoCache,
         loads |-> 0, runs |-> 0, first |-> NoCache] ]

\* before SQLite3.__str__ runs: no temporary file, no connection
NoResources ==
    [file |-> "none", connection |-> "none", transaction |-> "none",
     error |-> ""]

RunSources == SeqsUpTo(SourceRows, MaxRunRows)
BaseInputs == Years \cup { 1999 }
FormatInputs == FORMATS \cup { "unknown-format" }
\* filename: None, 'auto' (the const of --out) or a name
FilenameInputs == { "", "auto", "out.txt" }

Init ==
    /\ pc = "start"
    /\ cols = <<>>
    /\ rows = <<>>
    /\ data = <<>>
    /\ instances = <<>>
    /\ added = <<>>
    /\ format = ""
    /\ minified = FALSE
    /\ filename = ""
    /\ events = <<>>
    /\ written = <<>>
    /\ status = -1
    /\ op = [name |-> "none"]
    /\ result = <<>>
    /\ resources = NoResources
    /\ serializers = NoSerializers
    /\ verbose = FALSE

\* the exceptions sqlite3 raises when connecting or running the script
SqliteErrors == { "OperationalError", "IntegrityError" }

\* a variant for comparison: the handler names the class it catches
CaughtAsException(w, kind, message) ==
    /\ written' = Append(w,
                         [dest |-> "stdout", what |-> "exception",
                          kind |-> "Exception", data |-> message])
    /\ status' = 1
    /\ pc' = "exit"

\* except Exception as e: sys.stdout.write('EXCEPTION CAUGHT: {}: {}\n'
\* .format(type(e).__name__, e.message)); sys.exit(1)  (export.py:293-297)
ExceptionCaught(w, kind, message) ==
    /\ written' = Append(w,
                         [dest |-> "stdout", what |-> "exception",
                          kind |-> kind, data |-> message])
    /\ status' = 1
    /\ pc' = "exit"

\* raise Exception(message), caught by that handler
Caught(message) == ExceptionCaught(written, "Exception", message)

\* exporter.__name__ (exporters.py) of a registered format
ExporterName(fmt) ==
    CASE fmt = "csv" -> "CSV" [] fmt = "json" -> "JSON"
      [] fmt = "php" -> "PHP" [] fmt = "plist" -> "plist"
      [] fmt = "sql" -> "SQL" [] fmt = "sqlite3" -> "SQLite3"
      [] fmt = "xml" -> "XML" [] fmt = "yaml" -> "YAML"

\* logger.info(line): the handler of the run's logger is
\* logging.StreamHandler(sys.stdout) (export.py:219); info lines pass only
\* after logger.setLevel(logging.DEBUG), that is with --verbose (287-288)
LoggerInfo(w, line) ==
    IF verbose
    THEN Append(w, [dest |-> "stdout", what |-> "log", data |-> line])
    ELSE w

\* DTB.__init__ (export.py:130-141)
DTB__init__ ==
    /\ pc = "start"
    /\ verbose' \in BOOLEAN
    /\ \E base \in BaseInputs :
          IF base \notin Years
          THEN /\ Caught("This base is not available to download.")
               /\ UNCHANGED <<cols, rows, data, instances, added>>
          ELSE /\ Database__init__(base)
               /\ pc' = "dtb"
               /\ UNCHANGED <<written, status>>
    /\ UNCHANGED <<serializers, resources, format, minified, filename, events, op, result>>

\* DTB.get_db (export.py:162-187): self._db._rawdata = xls_file.getvalue()
get_db ==
    /\ pc = "dtb"
    /\ \E src \in RunSources :
          instances' = [instances EXCEPT ![1] =
                          [ a \in DOMAIN @ \cup { "_rawdata" } |->
                              IF a = "_rawdata" THEN src ELSE @[a] ]]
    /\ pc' = "got_db"
    /\ UNCHANGED <<verbose, serializers, resources, cols, rows, data, added, format, minified, filename,
                   events, written, status, op, result>>

\* export_db, lines 190-191: the source data is parsed into self._db
ExportParse ==
    /\ pc = "got_db"
    /\ \E fmt \in FormatInputs, min \in BOOLEAN :
          /\ format' = fmt
          /\ minified' = min
    /\ rows' = GetAttr(1, "_rows") \o RowTuples(GetAttr(1, "_rawdata"))
    /\ data' = ParseData(GetAttr(1, "_data"), GetAttr(1, "_rawdata"))
    /\ added' = [added EXCEPT ![1] = [rows |-> rows', data |-> data']]
    /\ events' = Append(events, "parse")
    /\ pc' = "parsed"
    /\ UNCHANGED <<verbose, serializers, resources, cols, instances, filename, written, status, op, result>>

\* export_db, lines 193-194: if format not in exporters.FORMATS: raise
ExportCheckFormat ==
    /\ pc = "parsed"
    /\ IF format \notin FORMATS
       THEN /\ Caught("Unsupported output format.")
            /\ events' = Append(events, "raise")
       ELSE /\ pc' = "checked"
            /\ UNCHANGED <<written, status, events>>
    /\ UNCHANGED <<verbose, serializers, resources, cols, rows, data, instances, added, format, minified,
                   filename, op, result>>

\* export_db, lines 196-201: data = str(exporter(self._db, minified))
ExportRender ==
    /\ pc = "checked"
    /\ LET logged == LoggerInfo(written,
                        "Exporting database to " \o ExporterName(format)
                          \o " format...")
       IN \/ /\ events' = events \o << "construct", "str" >>
             /\ result' = ExporterStr(format, GetAttr(1, "_cols"),
                                      GetAttr(1, "_rows"),
                                      GetAttr(1, "_data"), minified,
                                      GetAttr(1, "_name"))
             /\ written' = LoggerInfo(logged, "Done.")
             /\ pc' = "rendered"
             /\ UNCHANGED <<status, resources>>
          \/ /\ format = "sqlite3"
             /\ \E e \in SqliteErrors :
                   /\ resources' = [resources EXCEPT !.error = e]
                   /\ ExceptionCaught(logged, e, "the script failed")
             /\ events' = events \o << "construct", "str", "raise" >>
             /\ UNCHANGED result
    /\ UNCHANGED <<verbose, serializers, cols, rows, data,
                   instances, added, format, minified, filename, op>>

\* export_db, lines 203-209: the data goes to the file or to standard output
ExportWrite ==
    /\ pc = "rendered"
    /\ \E fn \in FilenameInputs :
          /\ filename' = fn
          /\ written' = Append(written,
                [dest |-> IF fn = "" THEN "stdout"
                          ELSE IF fn = "auto" THEN "dtb" \o Extension(format)
                          ELSE fn,
                 what |-> "export",
                 data |-> result])
    /\ events' = Append(events, "write")
    /\ status' = 0
    /\ pc' = "exit"
    /\ UNCHANGED <<verbose, serializers, resources, cols, rows, data, instances, added, format, minified,
                   op, result>>

Next ==
    \/ DTB__init__
    \/ get_db
    \/ ExportParse
    \/ ExportCheckFormat
    \/ ExportRender
    \/ ExportWrite

Spec == Init /\ [][Next]_vars

---------------------------------------------------------------------------
(* Database instances in one process: construction, and the parser adding  *)
(* the rows of a source file to an instance                                *)

NewDatabase ==
    /\ Len(instances) < MaxInstances
    /\ \E year \in Years : Database__init__(year)
    /\ UNCHANGED <<verbose, serializers, resources, pc, format, minified, filename, events, written, status,
                   op, result>>

ParseRow ==
    /\ Len(rows) < MaxRows
    /\ \E i \in DOMAIN instances, r \in SourceRows : ParseRowOn(i, r)
    /\ UNCHANGED <<verbose, serializers, resources, pc, format, minified, filename, events, written, status,
                   op, result>>

NextDb == NewDatabase \/ ParseRow

SpecDb == Init /\ [][NextDb]_vars

---------------------------------------------------------------------------
(* The exporters and serializers called on a loaded database: the first    *)
(* Database of the process, after the parser has read a source file        *)

\* the state after DTB(2013, logger).get_db() and the parse of `src`
Loaded(src) ==
    /\ pc = "loaded"
    /\ cols = InitCols(<<>>, 1)
    /\ rows = RowTuples(src)
    /\ data = ParseData(EmptyData, src)
    /\ instances = << [_base |-> 2013, _name |-> "dtb_2013",
                       _rawdata |-> src] >>
    /\ added = << [rows |-> RowTuples(src),
                   data |-> ParseData(EmptyData, src)] >>
    /\ format = ""
    /\ minified = FALSE
    /\ filename = ""
    /\ events = << "parse" >>
    /\ written = <<>>
    /\ status = -1
    /\ op = [name |-> "none"]
    /\ result = <<>>
    /\ resources = NoResources
    /\ serializers = NoSerializers
    /\ verbose = FALSE

InitLib == \E src \in SourceFiles : Loaded(src)

\* an exporter or serializer is constructed on the database and called
Call(o, r) ==
    /\ pc = "loaded"
    /\ op.name = "none"
    /\ op' = o
    /\ result' = r
    /\ UNCHANGED <<verbose, serializers, resources, pc, cols, rows, data, instances, added, format, minified,
                   filename, events, written, status>>

Call_toDict ==
    \E strKeys \in BOOLEAN, unicode \in BOOLEAN :
        Call([name |-> "toDict", strKeys |-> strKeys, unicode |-> unicode],
             toDict(GetAttr(1, "_data"), strKeys, unicode))

Call_JSON ==
    \E min \in BOOLEAN :
        Call([name |-> "JSON", minified |-> min],
             JSON__str__(GetAttr(1, "_data"), min))

Call_XML ==
    \E min \in BOOLEAN :
        Call([name |-> "XML", minified |-> min],
             XML__str__(GetAttr(1, "_data"), min, GetAttr(1, "_name")))

\* the script with the pieces it is the concatenation of
Call_SQL ==
    \E min \in BOOLEAN, dialect \in Dialects :
        Call([name |-> "SQL", minified |-> min, dialect |-> dialect],
             [pieces |-> SqlPieces(GetAttr(1, "_data"), dialect, min),
              text |-> SQL__str__(GetAttr(1, "_data"), min, dialect)])

Call_Serializer ==
    \E localize \in BOOLEAN, forceStr \in BOOLEAN, locale \in Locales :
        Call([name |-> "Serializer", localize |-> localize,
              forceStr |-> forceStr, locale |-> locale],
             Serializer_serialize(GetAttr(1, "_data"), localize, forceStr,
                                  locale))

Call_FlattenedSerializer ==
    \E locale \in Locales :
        Call([name |-> "FlattenedSerializer", locale |-> locale],
             FlattenedSerializer_serialize(GetAttr(1, "_data"), locale))

NextLib ==
    \/ Call_toDict
    \/ Call_JSON
    \/ Call_XML
    \/ Call_SQL
    \/ Call_Serializer
    \/ Call_FlattenedSerializer

SpecLib == InitLib /\ [][NextLib]_vars

---------------------------------------------------------------------------
(* The SQL exporter on a database of one state whose name is any string    *)
(* over an alphabet with the characters the script gives a meaning to      *)

MaxNameLen == 2

NameAlphabet == { "a", " ", ",", "(", ")", ";", "'", "\\" }

NameInputs == SeqsUpTo(NameAlphabet, MaxNameLen) \ { <<>> }

InitLit ==
    \E nome \in NameInputs :
        Loaded(<< [depth |-> 1, leaf |-> 1, nome |-> nome] >>)

NextLit == Call_SQL

SpecLit == InitLit /\ [][NextLit]_vars

---------------------------------------------------------------------------
(* The nested-map exporters on a database of one state whose name is any   *)
(* string over an alphabet with whitespace and the punctuation of the      *)
(* formats                                                                 *)

TextAlphabet == { "a", " ", "\t", "\n", ",", "{", "}" }

TextInputs == SeqsUpTo(TextAlphabet, MaxNameLen) \ { <<>> }

InitText ==
    \E nome \in TextInputs :
        Loaded(<< [depth |-> 1, leaf |-> 1, nome |-> nome] >>)

Call_plist ==
    \E min \in BOOLEAN :
        Call([name |-> "plist", minified |-> min],
             plist__str__(GetAttr(1, "_data"), min))

NextText == Call_JSON \/ Call_plist

SpecText == InitText /\ [][NextText]_vars

---------------------------------------------------------------------------
(* Export after export on the same loaded database: every exporter and     *)
(* serializer, any number of times, in any order                           *)

MaxExports == 2

InitSeq == \E src \in RunSources : Loaded(src)

\* an exporter or serializer runs: its result and what it leaves in
\* self._db._data; events counts the runs, at most MaxExports
Export(o, r, d) ==
    /\ pc = "loaded"
    /\ Len(events) <= MaxExports
    /\ op' = o
    /\ result' = r
    /\ data' = d
    /\ events' = Append(events, "str")
    /\ UNCHANGED <<verbose, serializers, pc, cols, rows, instances, added, format, minified,
                   filename, written, status, resources>>

Export_toDict ==
    \E strKeys \in BOOLEAN, unicode \in BOOLEAN :
        Export([name |-> "toDict", strKeys |-> strKeys, unicode |-> unicode],
               toDict(GetAttr(1, "_data"), strKeys, unicode),
               DataAfter_toDict(GetAttr(1, "_data")))

Export_JSON ==
    \E min \in BOOLEAN :
        Export([name |-> "JSON", minified |-> min],
               JSON__str__(GetAttr(1, "_data"), min),
               DataAfter_toDict(GetAttr(1, "_data")))

Export_plist ==
    \E min \in BOOLEAN :
        Export([name |-> "plist", minified |-> min],
               plist__str__(GetAttr(1, "_data"), min),
               DataAfter_toDict(GetAttr(1, "_data")))

Export_CSV ==
    \E min \in BOOLEAN :
        Export([name |-> "CSV", minified |-> min],
               CSV__str__(GetAttr(1, "_cols"), GetAttr(1, "_rows"), min),
               GetAttr(1, "_data"))

Export_XML ==
    \E min \in BOOLEAN :
        Export([name |-> "XML", minified |-> min],
               XML__str__(GetAttr(1, "_data"), min, GetAttr(1, "_name")),
               GetAttr(1, "_data"))

Export_SQL ==
    \E min \in BOOLEAN, dialect \in Dialects :
        Export([name |-> "SQL", minified |-> min, dialect |-> dialect],
               [pieces |-> SqlPieces(GetAttr(1, "_data"), dialect, min),
                text |-> SQL__str__(GetAttr(1, "_data"), min, dialect)],
               GetAttr(1, "_data"))

Export_Serializer ==
    \E localize \in BOOLEAN, forceStr \in BOOLEAN, locale \in Locales :
        Export([name |-> "Serializer", localize |-> localize,
                forceStr |-> forceStr, locale |-> locale],
               Serializer_serialize(GetAttr(1, "_data"), localize, forceStr,
                                    locale),
               GetAttr(1, "_data"))

Export_FlattenedSerializer ==
    \E locale \in Locales :
        Export([name |-> "FlattenedSerializer", locale |-> locale],
               FlattenedSerializer_serialize(GetAttr(1, "_data"), locale),
               GetAttr(1, "_data"))

NextSeq ==
    \/ Export_toDict
    \/ Export_JSON
    \/ Export_plist
    \/ Export_CSV
    \/ Export_XML
    \/ Export_SQL
    \/ Export_Serializer
    \/ Export_FlattenedSerializer

SpecSeq == InitSeq /\ [][NextSeq]_vars

-----------------------------------------------------------------------------
\* Serializer instances and their cached methods.  cachedmethod comes from
\* geodatabr.core.helpers.decorators: a method it decorates runs on the first
\* call on an instance, its value is kept on that instance, and later calls
\* on the instance are answered with the kept value.

\* is a call answered from the instance's cache
Memoized(cache) == cache[1] = "value"

\* a method without the decorator runs on every call
Undecorated(cache) == FALSE

\* @property @cachedmethod() def __records__
records_cachedmethod(cache) == Memoized(cache)

\* @cachedmethod() def serialize, of Serializer and of FlattenedSerializer
serialize_cachedmethod(cache) == Memoized(cache)

\* the cache of __records__ after one access that would load `loaded`
RecordsAfter(cache, loaded) ==
    IF records_cachedmethod(cache) THEN cache ELSE << "value", loaded >>

\* StateRepository().loadAll() runs in every access of self.__records__ that
\* is not answered from the cache; this counts them over n accesses
RECURSIVE LoaderCalls(_, _, _)
LoaderCalls(cache, loaded, n) ==
    IF n = 0 THEN 0
    ELSE (IF records_cachedmethod(cache) THEN 0 ELSE 1)
         + LoaderCalls(RecordsAfter(cache, loaded), loaded, n - 1)

\* Serializer() / FlattenedSerializer(): the options are the defaults
\* (localize = True, forceStr = False), the caches are empty
NewSerializer ==
    \E c \in SerializerClasses :
        /\ pc = "loaded"
        /\ ~serializers[c].made
        /\ serializers' = [serializers EXCEPT ![c].made = TRUE]
        /\ UNCHANGED <<verbose, pc, cols, rows, data, instances, added, format,
                       minified, filename, events, written, status, op,
                       result, resources>>

\* one call of serialize() on the instance of class c: the body reads
\* self.__records__ once per entity and aggregates what it finds
Serialize ==
    \E c \in SerializerClasses :
        LET s        == serializers[c]
            loaded   == GetAttr(1, "_data")
            hit      == serialize_cachedmethod(s.serialized)
            recs     == IF records_cachedmethod(s.records)
                        THEN s.records[2] ELSE loaded
            computed == IF c = "Serializer"
                        THEN Serializer_serialize(recs, TRUE, FALSE, "en")
                        ELSE FlattenedSerializer_serialize(recs, "en")
            returned == IF hit THEN s.serialized[2] ELSE computed
        IN  /\ pc = "loaded"
            /\ s.made
            /\ op' = [name |-> "serialize", instance |-> c,
                      again |-> s.first[1] = "value"]
            /\ result' = returned
            /\ serializers' =
                 [serializers EXCEPT ![c] =
                    [made |-> TRUE,
                     records |-> IF hit THEN s.records
                                 ELSE RecordsAfter(s.records, loaded),
                     serialized |-> IF hit THEN s.serialized
                                    ELSE << "value", computed >>,
                     loads |-> s.loads
                               + (IF hit THEN 0
                                  ELSE LoaderCalls(s.records, loaded,
                                                   Len(Entities))),
                     runs |-> s.runs + (IF hit THEN 0 ELSE 1),
                     first |-> IF s.first[1] = "value" THEN s.first
                               ELSE << "value", returned >>]]
            /\ UNCHANGED <<verbose, pc, cols, rows, data, instances, added, format,
                           minified, filename, events, written, status,
                           resources>>

\* the dataset grows between two calls
NextMemo == NewSerializer \/ Serialize \/ ParseRow

InitMemo == Loaded(<< >>)

SpecMemo == InitMemo /\ [][NextMemo]_vars

---------------------------------------------------------------------------
(* SQLite3.__str__ (exporters.py:554-564), statement by statement: the two *)
(* with blocks, the exits they run on the way out, and the ways sqlite3    *)
(* can fail.  resources.error names the exception on its way out.          *)

\* one statement of SQLite3.__str__: from `from` to `to`
SqliteStep(from, to, res, r) ==
    /\ pc = from
    /\ pc' = to
    /\ resources' = res
    /\ result' = r
    /\ UNCHANGED <<verbose, serializers, cols, rows, data, instances, added, format, minified,
                   filename, events, written, status, op>>

\* sql_str = str(SQL(self._db, self._minified, dialect='sqlite'))
SQLite3_script ==
    /\ pc = "loaded"
    /\ op.name = "none"
    /\ \E min \in BOOLEAN :
          /\ op' = [name |-> "SQLite3", minified |-> min]
          /\ result' = SQL__str__(GetAttr(1, "_data"), min, "sqlite")
    /\ pc' = "script"
    /\ UNCHANGED <<verbose, serializers, cols, rows, data, instances, added, format, minified,
                   filename, events, written, status, resources>>

\* with tempfile.NamedTemporaryFile() as sqlite_file:
SQLite3_tempfile ==
    SqliteStep("script", "in_file", [resources EXCEPT !.file = "open"],
               result)

\* sqlite3.connect(sqlite_file.name): a connection, or an error
SQLite3_connect ==
    \/ SqliteStep("in_file", "in_connection",
                  [resources EXCEPT !.connection = "open"], result)
    \/ SqliteStep("in_file", "file_exit",
                  [resources EXCEPT !.error = "OperationalError"], result)

\* sqlite_cursor.executescript('BEGIN; {} COMMIT'.format(sql_str)): the
\* script runs to its COMMIT, or a statement raises inside the transaction
SQLite3_executescript ==
    \/ SqliteStep("in_connection", "connection_exit",
                  [resources EXCEPT !.transaction = "committed"], result)
    \/ \E e \in SqliteErrors :
          SqliteStep("in_connection", "connection_exit",
                     [resources EXCEPT !.transaction = "open", !.error = e],
                     result)

\* the exit of `with sqlite3.connect(...) as sqlite_con`: the connection
\* commits, or rolls back on an exception; it is not closed
SQLite3_connection_exit ==
    SqliteStep("connection_exit",
               IF resources.error = "" THEN "read" ELSE "file_exit",
               [resources EXCEPT !.transaction =
                   IF resources.error = "" THEN "committed"
                   ELSE "rolled back"],
               result)

\* sqlite_data = open(sqlite_file.name, 'rb').read()
SQLite3_read ==
    SqliteStep("read", "file_exit", resources,
               [writer |-> "sqlite3", script |-> result])

\* the exit of `with tempfile.NamedTemporaryFile() as sqlite_file`: the file
\* is closed and with that deleted; then return sqlite_data, or the
\* exception leaves __str__
SQLite3_file_exit ==
    SqliteStep("file_exit",
               IF resources.error = "" THEN "returned" ELSE "raised",
               [resources EXCEPT !.file = "removed"], result)

\* after the return nothing refers to sqlite_con any more: the collector
\* closes the connection when it frees the object
SQLite3_collected ==
    /\ resources.connection = "open"
    /\ SqliteStep("returned", "returned",
                  [resources EXCEPT !.connection = "closed"], result)

NextSqlite ==
    \/ SQLite3_script
    \/ SQLite3_tempfile
    \/ SQLite3_connect
    \/ SQLite3_executescript
    \/ SQLite3_connection_exit
    \/ SQLite3_read
    \/ SQLite3_file_exit
    \/ SQLite3_collected

SpecSqlite == InitLib /\ [][NextSqlite]_vars

---------------------------------------------------------------------------
(* Claims *)

\* C1: export_db called with a format identifier that is not a key of
\* FORMATS fails with the unsupported-format error before the source data is
\* parsed, before any record is read from the entity tree and before any
\* exporter is constructed, and no output is written.
C1_UnknownFormatRejectedFirst ==
    ( /\ pc = "exit"
      /\ written # <<>>
      /\ written[Len(written)].data = "Unsupported output format." )
    => /\ "parse" \notin Range(events)
       /\ "construct" \notin Range(events)
       /\ "str" \notin Range(events)
       /\ \A i \in DOMAIN written : written[i].what # "export"

\* C2: every Database instance owns independent, freshly initialized
\* storage: its column list holds exactly the 12 composite column names, and
\* its rows and per-table records are exactly those added through it, whatever
\* was added to other instances and however many instances were constructed.
C2_IndependentStorage ==
    \A i \in DOMAIN instances :
        /\ GetAttr(i, "_cols") = InitCols(<<>>, 1)
        /\ Cardinality(Range(GetAttr(i, "_cols"))) = 12
        /\ GetAttr(i, "_rows") = added[i].rows
        /\ GetAttr(i, "_data") = added[i].data

\* C3: the list FlattenedSerializer.serialize returns is ordered by the key
\* tuple (state_id, mesoregion_id, microregion_id, municipality_id,
\* district_id, subdistrict_id) of its records, an absent field counting as
\* 0: no record's key is greater than the key of the record after it, also
\* when the localization renames the fields.
C3_FlattenedSorted ==
    op.name = "FlattenedSerializer" =>
        LET field(j) == Translate(op.locale, EntityName[j] \o "_id")
            key(record) ==
                [ j \in 1..6 |->
                    IF OdHas(record, field(j)) THEN OdGet(record, field(j))[2]
                    ELSE 0 ]
        IN  \A i \in 1..(Len(result) - 1) :
                ~ TupleLess(key(result[i + 1]), key(result[i]), 1)

\* the tables with records, root to leaf
Present == SelectSeq(DbTables, LAMBDA t : data[t] # <<>>)

UniqueIds ==
    \A t \in TableSet : \A i, j \in DOMAIN data[t] :
        data[t][i]["id"] = data[t][j]["id"] => i = j

\* a source value as json.loads returns it: every string is a unicode string
AsParsed(v) == IF IsInt(v) THEN v ELSE << "unicode", v[2] >>

\* the parsed JSON output has the tables of the source in their order, per
\* table one entry per record in source order, each under the key KeyOf
\* gives its id and with its other fields in schema order
JsonRoundTrip(KeyOf(_)) ==
    LET parsed == JsonLoads(result)
    IN  /\ parsed[1] = "dict"
        /\ [ k \in DOMAIN parsed[2] |-> parsed[2][k][1] ]
             = [ k \in DOMAIN Present |-> << "unicode", << Present[k] >> >> ]
        /\ \A k \in DOMAIN Present :
             LET entries == parsed[2][k][2][2]
                 recs == data[Present[k]]
                 rest == SelectSeq(DbFields(Present[k]), LAMBDA f : f # "id")
             IN  /\ Len(entries) = Len(recs)
                 /\ \A i \in DOMAIN recs :
                      /\ entries[i][1] = KeyOf(recs[i]["id"])
                      /\ entries[i][2]
                           = << "dict",
                                [ j \in DOMAIN rest |->
                                    << << "unicode", << rest[j] >> >>,
                                       AsParsed(recs[i][rest[j]]) >> ] >>

\* C4 as stated: for every non-empty tree with unique ids, parsing the JSON
\* exporter's output gives the source's tables in order, per table as many
\* entries as records, and each record's entry is keyed by its id.
C4_JsonRoundTripKeyedById ==
    (op.name = "JSON" /\ Present # <<>> /\ UniqueIds)
        => JsonRoundTrip(LAMBDA id : id)

\* C4, amended: for every non-empty tree with unique ids, parsing the JSON
\* exporter's output gives the source's tables in order, per table as many
\* entries as records, and each record's entry is keyed by the decimal
\* string of its id, its other fields carrying the source values in schema
\* order.
C4_JsonRoundTripKeyedByIdString ==
    (op.name = "JSON" /\ Present # <<>> /\ UniqueIds)
        => JsonRoundTrip(LAMBDA id : << "unicode", Chars(id[2]) >>)

\* C4 witness: the JSON output of a tree with two mesoregions of one state
C4_Witness ==
    /\ op.name = "JSON"
    /\ Len(data["mesorregiao"]) = 2
    /\ Len(JsonLoads(result)[2]) = 2

\* the names of the <table> elements and of the table comments of an XML
\* output, in document order
XmlTableNames(nodes) ==
    LET tables == SelectSeq(nodes, LAMBDA n : n.kind = "start"
                                              /\ n.tag = "table")
    IN  [ i \in DOMAIN tables |-> tables[i].name ]

XmlCommentNames(nodes) ==
    LET comments == SelectSeq(nodes, LAMBDA n : n.kind = "comment")
    IN  [ i \in DOMAIN comments |-> comments[i].text[4] ]

\* C5: in the nested map of __toDict__, in the result of
\* Serializer.serialize and in the XML output, the tables that appear are
\* exactly the tables with at least one record, in root-to-leaf order; an
\* empty table gives no key, no <table> element and no table comment.
C5_TablesIffNonEmpty ==
    /\ op.name = "toDict" =>
          OdKeys(result) = [ k \in DOMAIN Present |-> PyStr(<< Present[k] >>) ]
    /\ op.name = "Serializer" =>
          OdKeys(result)
            = [ k \in DOMAIN Present |->
                  IF op.localize
                  THEN Translate(op.locale, Entities[Level(Present[k])])
                  ELSE Entities[Level(Present[k])] ]
    /\ op.name = "XML" =>
          /\ XmlTableNames(result) = Present
          /\ XmlCommentNames(result) = IF op.minified THEN <<>> ELSE Present

\* C5 witness: the nested map of a tree with states and mesoregions and no
\* deeper entity
C5_Witness ==
    /\ op.name = "toDict"
    /\ data["uf"] # <<>>
    /\ data["mesorregiao"] # <<>>
    /\ data["microrregiao"] = <<>>
    /\ Len(result) = 2

\* the string literals of an SQL text, read as the dialect reads them: the
\* position of the quote that closes the literal whose body starts at i (0
\* when no quote closes it)
RECURSIVE LiteralEnd(_, _, _)
LiteralEnd(t, i, dialect) ==
    IF i > Len(t) THEN 0
    ELSE IF dialect = "standard" /\ t[i] = "\\"
    THEN LiteralEnd(t, i + 2, dialect)
    ELSE IF t[i] = "'"
    THEN IF dialect = "sqlite" /\ i < Len(t) /\ t[i + 1] = "'"
         THEN LiteralEnd(t, i + 2, dialect)
         ELSE i
    ELSE LiteralEnd(t, i + 1, dialect)

RECURSIVE Literals(_, _, _)
\* the literals of t that open at position i or later
Literals(t, i, dialect) ==
    LET quotes == { j \in i..Len(t) : t[j] = "'" }
    IN  IF quotes = {} THEN <<>>
        ELSE LET open == CHOOSE j \in quotes : \A m \in quotes : j <= m
                 close == LiteralEnd(t, open + 1, dialect)
             IN  IF close = 0
                 THEN << [body |-> SubSeq(t, open + 1, Len(t)),
                          closed |-> FALSE] >>
                 ELSE << [body |-> SubSeq(t, open + 1, close - 1),
                          closed |-> TRUE] >>
                      \o Literals(t, close + 1, dialect)

RECURSIVE LiteralValue(_, _)
\* the string a literal's body stands for
LiteralValue(body, dialect) ==
    IF body = <<>> THEN <<>>
    ELSE IF dialect = "standard" /\ body[1] = "\\" /\ Len(body) >= 2
    THEN << body[2] >> \o LiteralValue(SubSeq(body, 3, Len(body)), dialect)
    ELSE IF dialect = "sqlite" /\ Len(body) >= 2 /\ body[1] = "'"
            /\ body[2] = "'"
    THEN << "'" >> \o LiteralValue(SubSeq(body, 3, Len(body)), dialect)
    ELSE << body[1] >> \o LiteralValue(Tail(body), dialect)

\* C6: for every name over an alphabet with spaces, commas, parentheses and
\* semicolons and for both dialects, the string literals of the minified
\* script are, character for character, the string literals of the script
\* that is not minified.
C6_LiteralsUnchanged ==
    (op.name = "SQL" /\ op.minified) =>
        Literals(result.text, 1, op.dialect)
          = Literals(SQL__str__(data, FALSE, op.dialect), 1, op.dialect)

\* the statements of the script: its pieces without the comments
Statements == SelectSeq(result.pieces, LAMBDA p : p.kind # "comment")

\* C7 as stated: with lazy constraints, no CREATE TABLE and no INSERT
\* statement follows an ALTER TABLE statement in the script.
C7_ConstraintsAfterAllTables ==
    (op.name = "SQL" /\ lazy_constraints(op.dialect)) =>
        \A i, j \in DOMAIN Statements :
            ( /\ Statements[i].kind = "alter"
              /\ Statements[j].kind \in { "create", "insert" } ) => j < i

\* C7, amended: with lazy constraints, every ALTER TABLE statement comes
\* after the CREATE TABLE and every INSERT statement of its own table and
\* of the tables above it, the table a foreign key references among them;
\* the statements of the tables below it follow.
C7_ConstraintsAfterOwnTable ==
    (op.name = "SQL" /\ lazy_constraints(op.dialect)) =>
        \A i, j \in DOMAIN Statements :
            ( /\ Statements[i].kind = "alter"
              /\ Statements[j].kind \in { "create", "insert" } )
            => /\ Statements[i].ref # ""
                  => Level(Statements[i].ref) < Level(Statements[i].table)
               /\ (j < i) <=> ( Level(Statements[j].table)
                                  <= Level(Statements[i].table) )

\* C7 witness: the standard script of a tree with states and mesoregions,
\* where the constraints of uf precede the CREATE TABLE of mesorregiao
C7_Witness ==
    /\ op.name = "SQL"
    /\ op.dialect = "standard"
    /\ data["mesorregiao"] # <<>>
    /\ \E i, j \in DOMAIN Statements :
          /\ Statements[i].kind = "alter"
          /\ Statements[i].table = "uf"
          /\ Statements[j].kind = "create"
          /\ Statements[j].table = "mesorregiao"
          /\ i < j

\* the fields of a table that hold the id of an ancestor, and the table
\* such a field refers to
AncestorFields(t) ==
    { f \in Range(DbFields(t)) : f \notin { "id", "nome" } }

ReferencedTable(f) == CHOOSE t \in TableSet : IdCol(t) = f

\* C8: in the SQL script every INSERT statement comes after the CREATE
\* TABLE of its table, and each ancestor id it carries is the id of a row
\* whose INSERT, itself after its table's CREATE TABLE, comes earlier; with
\* inline constraints every table a CREATE TABLE references is created by
\* an earlier statement.
C8_AncestorsFirst ==
    op.name = "SQL" =>
        /\ \A i \in DOMAIN Statements :
             Statements[i].kind = "insert" =>
               /\ \E c \in 1..(i - 1) :
                     /\ Statements[c].kind = "create"
                     /\ Statements[c].table = Statements[i].table
               /\ \A f \in AncestorFields(Statements[i].table) :
                     \E j \in 1..(i - 1) :
                        /\ Statements[j].kind = "insert"
                        /\ Statements[j].table = ReferencedTable(f)
                        /\ Statements[j].item["id"] = Statements[i].item[f]
        /\ \A i \in DOMAIN Statements :
             Statements[i].kind = "create" =>
               \A t \in Statements[i].refs :
                  \E c \in 1..(i - 1) :
                     /\ Statements[c].kind = "create"
                     /\ Statements[c].table = t

\* C8 witness: the sqlite script of a tree that reaches the subdistricts,
\* whose last CREATE TABLE references the five tables above it
C8_Witness ==
    /\ op.name = "SQL"
    /\ op.dialect = "sqlite"
    /\ data["subdistrito"] # <<>>
    /\ \E i \in DOMAIN Statements :
          /\ Statements[i].kind = "create"
          /\ Cardinality(Statements[i].refs) = 5

\* the statement that inserts the record `item` into table t
InsertOf(t, item) ==
    << "INSERT", " ", "INTO", " ", t, " ", "VALUES", " ", "(" >>
    \o Join(<< ",", " " >>,
            [ j \in DOMAIN DbFields(t) |->
                LET v == item[DbFields(t)[j]]
                IN  IF IsInt(v) THEN Chars(v[2])
                    ELSE << "'" >> \o v[2] \o << "'" >> ])
    \o << ")", ";", "\n" >>

\* C9: the SQL script has one CREATE TABLE statement for each table with
\* records and none for an empty table, for each table the INSERT
\* statements of its records, one per record in source order, no statement
\* that names an empty table, and every ancestor id of an inserted row is
\* the id of an inserted row of the table it refers to.
C9_RowsAsInSource ==
    op.name = "SQL" =>
        /\ \A t \in TableSet :
             LET creates == SelectSeq(Statements,
                              LAMBDA p : p.kind = "create" /\ p.table = t)
                 inserts == SelectSeq(Statements,
                              LAMBDA p : p.kind = "insert" /\ p.table = t)
             IN  /\ Len(creates) = IF data[t] = <<>> THEN 0 ELSE 1
                 /\ [ i \in DOMAIN inserts |-> inserts[i].text ]
                      = [ i \in DOMAIN data[t] |->
                            InsertOf(t, data[t][i]) ]
        /\ \A i \in DOMAIN Statements : data[Statements[i].table] # <<>>
        /\ \A i \in DOMAIN Statements :
             Statements[i].kind = "insert" =>
               \A f \in AncestorFields(Statements[i].table) :
                  \E j \in DOMAIN Statements :
                     /\ Statements[j].kind = "insert"
                     /\ Statements[j].table = ReferencedTable(f)
                     /\ Statements[j].item["id"] = Statements[i].item[f]

\* C9 witness: the script of a tree with two states, one of them with a
\* mesoregion, and no municipality
C9_Witness ==
    /\ op.name = "SQL"
    /\ Len(data["uf"]) = 2
    /\ Len(data["mesorregiao"]) = 1
    /\ data["municipio"] = <<>>
    /\ Len(SelectSeq(Statements, LAMBDA p : p.kind = "insert")) = 3

\* C10: in the script that is not minified, the text between the outer
\* quotes of the name is one closed string literal of the dialect, it
\* stands for the name, and it is the only literal of the script.
C10_LiteralStandsForValue ==
    (op.name = "SQL" /\ ~ op.minified /\ Len(data["uf"]) = 1) =>
        LET literals == Literals(result.text, 1, op.dialect)
        IN  /\ Len(literals) = 1
            /\ literals[1].closed
            /\ LiteralValue(literals[1].body, op.dialect)
                 = data["uf"][1]["nome"][2]

\* C11: when SQLite3.__str__ has returned its bytes or an error has left
\* it, the temporary file is closed and removed and the connection, if one
\* was opened, is closed.
C11_ResourcesReleased ==
    (op.name = "SQLite3" /\ pc \in { "returned", "raised" }) =>
        /\ resources.file = "removed"
        /\ resources.connection \in { "none", "closed" }

\* C12: for the JSON and the property-list output of a tree whose name is
\* any string over an alphabet with space, tab, newline, comma and braces,
\* the minified output parses back to the map the output that is not
\* minified parses back to.
C12_MinifiedParsesTheSame ==
    /\ (op.name = "JSON" /\ op.minified) =>
          JsonLoads(result) = JsonLoads(JSON__str__(data, FALSE))
    /\ (op.name = "plist" /\ op.minified) =>
          plistlib_readPlistFromString(result)
            = plistlib_readPlistFromString(plist__str__(data, FALSE))

\* C13: after any sequence of exporter and serializer runs on the same
\* database, every table holds the records the parser added, in the order
\* it added them and with all their fields, 'id' included, and the rows are
\* the rows it added.
C13_EntitiesNotMutated ==
    /\ GetAttr(1, "_data") = added[1].data
    /\ GetAttr(1, "_rows") = added[1].rows
    /\ \A t \in TableSet : \A i \in DOMAIN data[t] :
          DOMAIN data[t][i] = Range(DbFields(t))

\* C13 witness: a second run, of __toDict__, on a database with a
\* mesoregion
C13_Witness ==
    /\ Len(events) = 3
    /\ op.name = "toDict"
    /\ Len(data["mesorregiao"]) = 1
    /\ Len(result) = 2

\* C14: after the first serialize() on a serializer instance every later call
\* on it returns what the first returned, the body of serialize runs at most
\* once and the repository loader is invoked at most once on that instance.
C14_MemoizedPerInstance ==
    \A c \in SerializerClasses :
        /\ serializers[c].loads <= 1
        /\ serializers[c].runs <= 1
        /\ (op.name = "serialize" /\ op.instance = c) =>
               result = serializers[c].first[2]

\* C14 witness: a second call on the Serializer instance after the dataset
\* grew, answered with the first result, which a fresh aggregation would not
\* give.
C14_Witness ==
    /\ op.name = "serialize" /\ op.instance = "Serializer" /\ op.again
    /\ serializers["Serializer"].loads = 1
    /\ result # Serializer_serialize(GetAttr(1, "_data"), TRUE, FALSE, "en")
    /\ serializers["FlattenedSerializer"].runs = 1

\* the run ended because str(exporter(...)) raised
RenderFailed ==
    /\ pc = "exit"
    /\ "str" \in Range(events)
    /\ events[Len(events)] = "raise"

\* C15 (as stated): when an exporter fails while rendering, export_db has
\* written nothing to the output file or to standard output, has made one
\* attempt only, and the run ends with exit status 1 and names the kind of
\* the error.
C15_NothingWrittenOnRenderFailure ==
    RenderFailed =>
        /\ \A i \in DOMAIN written : written[i].what = "exception"
        /\ "write" \notin Range(events)
        /\ Cardinality({ i \in DOMAIN events : events[i] = "str" }) = 1
        /\ status = 1
        /\ written[Len(written)].kind = resources.error

\* C15 (amended): when an exporter fails while rendering, export_db has
\* written no export data to the output file or to standard output (with
\* --verbose its progress line is already on standard output), has made one
\* attempt only, and the run ends with exit status 1, its last line on
\* standard output naming the kind of the error.
C15_NoExportWrittenOnRenderFailure ==
    RenderFailed =>
        /\ \A i \in DOMAIN written : written[i].what # "export"
        /\ \A i \in DOMAIN written :
              written[i].what = "log" =>
                  /\ verbose
                  /\ written[i].dest = "stdout"
                  /\ written[i].data # "Done."
        /\ "write" \notin Range(events)
        /\ Cardinality({ i \in DOMAIN events : events[i] = "str" }) = 1
        /\ status = 1
        /\ written[Len(written)].what = "exception"
        /\ written[Len(written)].dest = "stdout"
        /\ written[Len(written)].kind = resources.error
        /\ resources.error \in SqliteErrors

\* C15 witness: a verbose run whose SQLite3 export raised IntegrityError
\* after the progress line was logged.
C15_Witness ==
    /\ RenderFailed
    /\ verbose
    /\ format = "sqlite3"
    /\ resources.error = "IntegrityError"
    /\ Len(written) = 2
    /\ rows # << >>

\* the composite column names of the tables of d that hold records, from
\* table k on, root first
RECURSIVE NonEmptyTableCols(_, _)
NonEmptyTableCols(d, k) ==
    IF k > Len(DbTables) THEN << >>
    ELSE (IF d[DbTables[k]] = << >> THEN << >>
          ELSE << IdCol(DbTables[k]), NomeCol(DbTables[k]) >>)
         \o NonEmptyTableCols(d, k + 1)

\* C16: the CSV output starts with one header row, and that header holds the
\* composite column names id_<table>, nome_<table> of the non-empty tables
\* only, each name once, in root-to-leaf table order.
C16_HeaderOfNonEmptyTables ==
    op.name = "CSV" =>
        /\ Len(result.lines) = 1 + Len(GetAttr(1, "_rows"))
        /\ result.lines[1] = NonEmptyTableCols(GetAttr(1, "_data"), 1)
        /\ \A i, j \in DOMAIN result.lines[1] :
              result.lines[1][i] = result.lines[1][j] => i = j

\* the values of a source row that are there, in column order
PresentValues(row) == SelectSeq(row, LAMBDA v : v # PyNone)

\* C17: each CSV data row holds exactly the present values of its source
\* row, in column order: an absent value is left out and never written as an
\* empty field, every present value is written, and there are as many rows
\* after the header as source rows.
C17_RowsHoldPresentValues ==
    op.name = "CSV" =>
        /\ Len(result.lines) = 1 + Len(GetAttr(1, "_rows"))
        /\ \A i \in DOMAIN GetAttr(1, "_rows") :
              /\ result.lines[i + 1] = PresentValues(GetAttr(1, "_rows")[i])
              /\ \A j \in DOMAIN result.lines[i + 1] :
                    /\ result.lines[i + 1][j] # PyNone
                    /\ result.lines[i + 1][j] # PyStr(<< >>)

\* C17 witness: a CSV export of a source row of a municipality, whose two
\* deepest levels are absent: eight values are written of twelve.
C17_Witness ==
    /\ op.name = "CSV"
    /\ Len(result.lines) = 2
    /\ Len(GetAttr(1, "_rows")[1]) = 12
    /\ GetAttr(1, "_rows")[1][9] = PyNone
    /\ Len(result.lines[2]) = 8

\* the column names of a CREATE TABLE statement, in order: what follows the
\* two blanks at the start of a line and is not a constraint
CreateColumns(text) ==
    SelectSeq([ i \in DOMAIN text |->
                  IF /\ i > 3
                     /\ text[i - 1] = " " /\ text[i - 2] = " "
                     /\ text[i - 3] = "\n"
                     /\ text[i] \notin { " ", "CONSTRAINT" }
                  THEN text[i] ELSE "" ],
              LAMBDA a : a # "")

\* the columns a statement puts a FOREIGN KEY on
ForeignKeyColumns(text) ==
    { text[i + 5] : i \in { j \in DOMAIN text : text[j] = "FOREIGN" } }

\* the foreign-key columns the script declares for table t
ScriptForeignKeys(t) ==
    UNION { ForeignKeyColumns(Statements[i].text) :
              i \in { j \in DOMAIN Statements :
                        /\ Statements[j].table = t
                        /\ Statements[j].kind \in { "create", "alter" } } }

\* the columns of table t the script creates an index on
ScriptIndexedColumns(t) ==
    { Statements[i].text[12] :
        i \in { j \in DOMAIN Statements :
                  /\ Statements[j].kind = "index"
                  /\ Statements[j].text[9] = t } }

\* id first, then the ancestor ids from innermost to outermost, name last
FieldsInOrder(t) ==
    << "id" >>
    \o [ j \in 1..(Level(t) - 1) |-> IdCol(DbTables[Level(t) - j]) ]
    \o << "nome" >>

\* C18: for every table of the script, the columns of its CREATE TABLE, the
\* values of each of its INSERT statements and the schema's field list are
\* the same sequence (id, the ancestor ids innermost to outermost, name), and
\* every foreign-key column is a column of that table and has an index on
\* it, in both dialects.
C18_ColumnsValuesFieldsAgree ==
    op.name = "SQL" =>
        \A i \in DOMAIN Statements :
            LET s == Statements[i]
            IN  /\ s.kind = "create" =>
                     /\ CreateColumns(s.text) = DbFields(s.table)
                     /\ DbFields(s.table) = FieldsInOrder(s.table)
                     /\ ScriptForeignKeys(s.table) = AncestorFields(s.table)
                     /\ ScriptForeignKeys(s.table)
                          \subseteq Range(CreateColumns(s.text))
                     /\ ScriptForeignKeys(s.table)
                          \subseteq ScriptIndexedColumns(s.table)
                /\ s.kind = "insert" =>
                     /\ s.text = InsertOf(s.table, s.item)
                     /\ \A j \in DOMAIN SqlInserts(s.table) :
                           \E k \in DOMAIN SqlInserts(s.table)[j] :
                              SqlInserts(s.table)[j][k]
                                = Field(DbFields(s.table)[j])

\* C18 witness: the sqlite script of a tree that reaches the subdistricts:
\* the table has seven columns, five of them foreign keys with an index,
\* and its INSERT carries seven values.
C18_Witness ==
    /\ op.name = "SQL"
    /\ op.dialect = "sqlite"
    /\ \E i \in DOMAIN Statements :
          /\ Statements[i].kind = "create"
          /\ Statements[i].table = "subdistrito"
          /\ Len(CreateColumns(Statements[i].text)) = 7
    /\ Cardinality(ScriptForeignKeys("subdistrito")) = 5
    /\ Cardinality(ScriptIndexedColumns("subdistrito")) = 5
    /\ \E i \in DOMAIN Statements :
          /\ Statements[i].kind = "insert"
          /\ Statements[i].table = "subdistrito"

=============================================================================
